---- MODULE Spec2Model ----
(***************************************************************************)
(* A model of GitOperations (src/src/hooks/useSearchFilter.ts, lines        *)
(* 56-576): the branch-name validation boundary, the cherry-pick rebase     *)
(* primitives (setupCherryPick .. cleanupCherryPick) and performLinearRebase.*)
(*                                                                         *)
(* The git repository is the environment.  Every `await this.git...` of the *)
(* source is one step: the command is appended to `cmds` and either fails   *)
(* (any subprocess may fail) or, when git's precondition for it holds,      *)
(* succeeds with its effect on the refs.                                    *)
(*                                                                         *)
(* Spec follows the operations one call at a time, SpecFinish follows       *)
(* finishCherryPick alone, SpecRevList follows getCommitsToCherryPick on    *)
(* every small commit graph, and SpecSession follows one RebaseSession of   *)
(* the specification driving the cherry-pick primitives.                    *)
(***************************************************************************)
EXTENDS Naturals, Integers, Sequences, FiniteSets, TLC

\* ------------------------------------------------------------------ bounds
MaxCommit == 2      \* commits are 1..MaxCommit; 0 is "no such ref"
MaxClock  == 2      \* Date.now() values are 1..MaxClock
MaxCalls  == 2      \* calls made by one process before the model stops
MaxNodes  == 4      \* commits of a commit graph
MaxSteps  == 6      \* subprocess commands issued by one cherry-pick session

NoCommit == 0
Commits  == 1..MaxCommit
Times    == 1..MaxClock

\* ------------------------------------------------------------- branch names
\* A name is the sequence of its characters.
Main     == <<"m">>
Feature  == <<"f", "/", "x">>
TraversalName == <<"f", "/", ".", ".", "/", "x">>
TempBranchName == <<"t", "-", "1">>
OriginPrefix == <<"o", "/">>
NoRef    == <<>>

\* refs/heads/<n> that may exist
RefNames    == {Main, Feature, TempBranchName}
\* refs/remotes/origin/<n> that may exist
RemoteNames == {Main, Feature}
\* what a caller may pass as a branch name
ArgNames    == {Main, Feature, TraversalName}
\* what the rebase tool passes as the current branch and as the target
CurrentArgs == {Feature, TraversalName}
TargetArgs  == {Main, TraversalName}

\* the characters of the model that are letters and digits, and the safe set
Letters == {"m", "f", "x", "t", "o", "l", "c", "k", "A"}
Digits  == {"1"}
SafeChars == Letters \cup Digits \cup {"-", "_", ".", "/"}

\* String.prototype.split(sep): the pieces of s between its separators; a
\* string without a separator, the empty string included, is one piece
RECURSIVE Split(_, _)
Split(s, sep) ==
    IF \A i \in 1..Len(s) : s[i] # sep THEN <<s>>
    ELSE LET k == CHOOSE i \in 1..Len(s) :
                        s[i] = sep /\ \A j \in 1..(i - 1) : s[j] # sep
         IN  <<SubSeq(s, 1, k - 1)>> \o Split(SubSeq(s, k + 1, Len(s)), sep)

\* the segments of a name between its "/" separators (name.split("/"))
SplitSlash(s) == Split(s, "/")

WhiteSpace == {" ", "\t", "\n"}

\* String.prototype.trim(): the white space at both ends is dropped
RECURSIVE trim(_)
trim(s) ==
    IF s = <<>> THEN s
    ELSE IF Head(s) \in WhiteSpace THEN trim(Tail(s))
    ELSE IF s[Len(s)] \in WhiteSpace THEN trim(SubSeq(s, 1, Len(s) - 1))
    ELSE s

\* Array.prototype.filter(Boolean) on strings: the empty ones are dropped
filterNothing(lines) == lines
filterBoolean(lines) == SelectSeq(lines, LAMBDA l : l # <<>>)

EndsWith(s, suf) ==
    /\ Len(s) >= Len(suf)
    /\ SubSeq(s, Len(s) - Len(suf) + 1, Len(s)) = suf

Contains(s, sub) ==
    \E i \in 1..(Len(s) - Len(sub) + 1) : SubSeq(s, i, i + Len(sub) - 1) = sub

\* lib/isValidBranchName.js: the rules of spec section 4.1 and of
\* tests/isValidBranchName.test.ts
isValidBranchNameNoLock(name) ==
    /\ Len(name) > 0
    /\ \A i \in 1..Len(name) : name[i] \in SafeChars
    /\ ~Contains(name, <<".", ".">>)
    /\ name[1] # "/"
    /\ name[Len(name)] # "/"
    /\ ~Contains(name, <<"/", "/">>)
    /\ name[Len(name)] # "."
    /\ LET segs == SplitSlash(name)
       IN  \A i \in 1..Len(segs) : Len(segs[i]) > 0 => segs[i][1] # "."

isValidBranchNameNoDots(name) ==
    /\ Len(name) > 0
    /\ \A i \in 1..Len(name) : name[i] \in SafeChars \ {"."}
    /\ name[1] # "/"
    /\ name[Len(name)] # "/"
    /\ ~Contains(name, <<"/", "/">>)

isValidBranchName(name) ==
    /\ Len(name) > 0
    /\ \A i \in 1..Len(name) : name[i] \in SafeChars
    /\ ~Contains(name, <<".", ".">>)
    /\ name[1] # "/"
    /\ name[Len(name)] # "/"
    /\ ~Contains(name, <<"/", "/">>)
    /\ name[Len(name)] # "."
    /\ LET segs == SplitSlash(name)
       IN  \A i \in 1..Len(segs) :
               /\ (Len(segs[i]) > 0 => segs[i][1] # ".")
               /\ ~EndsWith(segs[i], <<".", "l", "o", "c", "k">>)

\* currentBranch.replace(/\//g, "-")
safeBranch(name) == [i \in 1..Len(name) |-> IF name[i] = "/" THEN "-" ELSE name[i]]

\* `origin/${branch}`
OriginRef(branch) == OriginPrefix \o branch

\* ------------------------------------------------------------------- state
VARIABLES
    tips,        \* refs/heads: RefNames -> commit or NoCommit
    remotes,     \* refs/remotes/origin: RemoteNames -> commit or NoCommit
    head,        \* the checked-out branch
    tags,        \* annotated tags: records [name, target]
    inProgress,  \* "none" | "rebase" | "cherry-pick": the operation that stopped
    pc,          \* position of the running call ("idle": none)
    call,        \* the running call: its operation and arguments
    cmds,        \* subprocess commands the running call has issued, in order
    progress,    \* messages the running call handed to progressCallback
    outcome,     \* how the call ended: [kind, msg]
    caught,      \* the error performLinearRebase's catch blocks hold
    resolved,    \* the value resolveBranchRef returned to the running call
    pre,         \* the repository when the running call started
    ncalls,      \* calls started so far
    graph,       \* the commit graph: [n, parents, skew]
    range,       \* the arguments of getCommitsToCherryPick: [from, to]
    queue,       \* what getCommitsToCherryPick returned
    pickHead,    \* CHERRY_PICK_HEAD: the commit of the stopped cherry-pick
    applied,     \* the commits cherry-picked onto the checked-out branch, in order
    phase,       \* RebaseSession: the state of the session's state machine
    cursor,      \* RebaseSession.cursor: index into the queue
    listing,     \* the branches of the repository, as the inventory queries see them
    inflight,    \* the subprocess commands started and not yet completed
    answers,     \* getBranchInfos: the awaited values that have settled
    infos,       \* getBranchInfos: the array it returned
    previous,    \* the option and the array of the last getBranchInfos that returned
    script,      \* the commands the running operation issues after the one in flight
    files,       \* the file system: what is at each path
    frame,       \* the running library function: its name, arguments and locals
    value        \* what the library function returned or threw

repo == <<tips, remotes, head, tags, inProgress>>
history == <<graph, range, queue, pickHead, applied, phase, cursor>>
inventory == <<listing, inflight, answers, infos, previous, script>>
library == <<files, frame, value>>
vars == <<tips, remotes, head, tags, inProgress,
          pc, call, cmds, progress, outcome, caught, resolved, pre, ncalls,
          graph, range, queue, pickHead, applied, phase, cursor,
          listing, inflight, answers, infos, previous, script,
          files, frame, value>>

NoError == [kind |-> "none", msg |-> "none"]
Ok      == [kind |-> "ok", msg |-> "none"]
\* an error thrown by simple-git for a failed subprocess
GitError(c) == [kind |-> "GitError", msg |-> c]

Cmd(c, ref) == [c |-> c, ref |-> ref]
Issue(c, ref) == cmds' = Append(cmds, Cmd(c, ref))

NoCall == [op |-> "none", a |-> NoRef, b |-> NoRef, flag |-> FALSE, cb |-> FALSE]

\* the graph of one root commit; commit k of a graph is its k-th commit in
\* order of creation, so every parent of k is below k
RootGraph == [n |-> 1, parents |-> <<(<<>>)>>, skew |-> <<FALSE>>]
NoRange == [from |-> 0, to |-> 0]

\* the repository as one value
Snapshot == [tips |-> tips, remotes |-> remotes, head |-> head, tags |-> tags,
             inProgress |-> inProgress]

Tip(b) == IF b \in RefNames THEN tips[b] ELSE NoCommit
RemoteTip(b) == IF b \in RemoteNames THEN remotes[b] ELSE NoCommit
\* the commit a revision argument (a branch name or origin/<name>) names
Resolve(ref) ==
    IF Tip(ref) # NoCommit THEN Tip(ref)
    ELSE IF \E n \in RemoteNames : ref = OriginRef(n) /\ remotes[n] # NoCommit
         THEN remotes[CHOOSE n \in RemoteNames : ref = OriginRef(n)]
         ELSE NoCommit

\* a commit made on top of the commits ps, with a clock that runs late or not
Extend(g, ps, late) ==
    [n |-> g.n + 1, parents |-> Append(g.parents, ps), skew |-> Append(g.skew, late)]

\* one parent, or two of them in order
ParentLists(n) ==
    {<<p>> : p \in 1..n} \cup {pq \in (1..n) \X (1..n) : pq[1] # pq[2]}

RECURSIVE Graphs(_)
Graphs(n) ==
    IF n = 1 THEN {RootGraph}
    ELSE {Extend(g, ps, late) :
            g \in Graphs(n - 1), ps \in ParentLists(n - 1), late \in BOOLEAN}

AllGraphs == UNION {Graphs(n) : n \in 1..MaxNodes}

\* a repository without branches
NoListing == [local |-> <<>>, remote |-> <<>>, broken |-> {}]
\* nothing has settled
NoAnswers == [settled |-> {}, localMerged |-> {}, remoteMerged |-> {},
              baseBranch |-> NoRef, localBranches |-> <<>>, allBranches |-> <<>>,
              counts |-> <<>>, counted |-> {}]
NoPrevious == [valid |-> FALSE, includeRemote |-> FALSE, infos |-> <<>>]

\* no inventory was taken and no command is in flight
InitInventoryIdle ==
    /\ inflight = {}
    /\ answers = NoAnswers
    /\ infos = <<>>
    /\ previous = NoPrevious
    /\ script = <<>>

\* an empty file system, and no library function is running
NoFiles == <<>>
NoFrame == [op |-> "none"]
NoValue == [kind |-> "none"]

InitLibraryIdle ==
    /\ files = NoFiles
    /\ frame = NoFrame
    /\ value = NoValue

\* no call is running
InitProcess ==
    /\ pc = "idle"
    /\ call = NoCall
    /\ cmds = <<>>
    /\ progress = <<>>
    /\ outcome = NoError
    /\ caught = NoError
    /\ resolved = NoRef
    /\ pre = Snapshot
    /\ ncalls = 0
    /\ InitInventoryIdle

\* no cherry-pick session has started
InitSessionIdle ==
    /\ range = NoRange
    /\ queue = <<>>
    /\ pickHead = NoRef
    /\ applied = <<>>
    /\ phase = "Idle"
    /\ cursor = 1

Init ==
    /\ tips \in [RefNames -> {NoCommit, 1, 2}]
    /\ tips[Main] \in {NoCommit, 1}
    /\ tips[Feature] \in {NoCommit, 2}
    /\ tips[TempBranchName] \in {NoCommit, 1}
    /\ remotes \in [RemoteNames -> {NoCommit, 1}]
    /\ head \in {b \in RefNames : tips[b] # NoCommit}
    /\ tags = {}
    /\ inProgress = "none"
    /\ InitProcess
    /\ graph = RootGraph
    /\ InitSessionIdle
    /\ listing = NoListing
    /\ InitLibraryIdle

\* finishCherryPick is followed in the sessions of a branch that exists
InitFinish ==
    /\ Init
    /\ tips[Feature] # NoCommit

\* getCommitsToCherryPick is followed on every commit graph: the current
\* branch is at the newest commit
InitRevList ==
    /\ graph \in AllGraphs
    /\ tips = [b \in RefNames |-> IF b = Feature THEN graph.n ELSE
                                   IF b = Main THEN 1 ELSE NoCommit]
    /\ remotes = [b \in RemoteNames |-> NoCommit]
    /\ head = Feature
    /\ tags = {}
    /\ inProgress = "none"
    /\ InitProcess
    /\ InitSessionIdle
    /\ listing = NoListing
    /\ InitLibraryIdle

\* the graphs without merge commits whose clocks agree
PlainGraphs ==
    {g \in AllGraphs : \A c \in 1..g.n : Len(g.parents[c]) <= 1 /\ ~g.skew[c]}

\* a session is followed from TempBranchCreated: setupCherryPick(Main) has
\* created the temporary branch on the target's tip and checked it out
InitSession ==
    /\ graph \in PlainGraphs
    /\ \E target \in 1..graph.n :
         tips = [b \in RefNames |-> IF b = Feature THEN graph.n ELSE target]
    /\ remotes = [b \in RemoteNames |-> NoCommit]
    /\ head = TempBranchName
    /\ tags = {}
    /\ inProgress = "none"
    /\ InitProcess
    /\ range = NoRange
    /\ queue = <<>>
    /\ pickHead = NoRef
    /\ applied = <<>>
    /\ phase = "TempBranchCreated"
    /\ cursor = 1
    /\ listing = NoListing
    /\ InitLibraryIdle

\* a whole session is followed from Idle: the branch to rebase is checked
\* out, the temporary branch does not exist, origin/<target> may exist
InitLifecycle ==
    /\ graph \in PlainGraphs
    /\ \E target \in 1..graph.n :
         /\ tips = [b \in RefNames |-> IF b = Feature THEN graph.n ELSE
                                        IF b = Main THEN target ELSE NoCommit]
         /\ remotes \in {[b \in RemoteNames |-> IF b = Main THEN r ELSE NoCommit] :
                            r \in {NoCommit, target}}
    /\ head = Feature
    /\ tags = {}
    /\ inProgress = "none"
    /\ InitProcess
    /\ InitSessionIdle
    /\ listing = NoListing
    /\ InitLibraryIdle

\* a call starts: the arguments are bound
Enter(op, a, b, flag, cb) ==
    /\ pc = "idle"
    /\ ncalls < MaxCalls \/ phase # "Idle"
    /\ ncalls' = ncalls + 1
    /\ call' = [op |-> op, a |-> a, b |-> b, flag |-> flag, cb |-> cb]
    /\ caught' = NoError
    /\ resolved' = NoRef
    /\ pre' = Snapshot
    /\ UNCHANGED <<history, inventory, library>>

\* the call ends: it returned (Ok) or threw e
Finish(e) == pc' = "done" /\ outcome' = e

\* the caller takes the result; the process is ready for its next call
Taken ==
    /\ pc = "done"
    /\ pc' = "idle"
    /\ call' = NoCall
    /\ outcome' = NoError
    /\ cmds' = <<>>
    /\ progress' = <<>>
    /\ caught' = NoError
    /\ resolved' = NoRef
    /\ pre' = Snapshot
    /\ UNCHANGED <<repo, ncalls, inventory, library>>

Return == Taken /\ UNCHANGED history

\* ------------------------------------------------------------ git commands
\* git checkout <branch>: switches to an existing local branch, or creates it
\* from origin/<branch> when only the remote-tracking ref exists
CanCheckout(b) == Tip(b) # NoCommit \/ (b \in RefNames /\ RemoteTip(b) # NoCommit)
DoCheckout(b) ==
    /\ head' = b
    /\ tips' = IF Tip(b) # NoCommit THEN tips ELSE [tips EXCEPT ![b] = RemoteTip(b)]

\* ------------------------------------------------------- finishCherryPick
\* finishCherryPick(currentBranch = call.a, tempBranchName = call.b,
\*                  {createBackup = call.flag})
FinishCherryPick(currentBranch, tempBranchName, createBackup) ==
    /\ Enter("finishCherryPick", currentBranch, tempBranchName, createBackup, FALSE)
    /\ pc' = "fin_checkout"
    /\ cmds' = <<>>
    /\ UNCHANGED <<repo, progress, outcome>>

\* if (options?.createBackup) { ... } : the step after the checkout
AfterCheckoutSkipsBackup == "fin_reset"
AfterCheckoutBacksUp == "fin_revparse"
AfterCheckout == IF call.flag THEN "fin_revparse" ELSE "fin_reset"

\* await this.git.checkout(currentBranch)
FinCheckout ==
    /\ pc = "fin_checkout"
    /\ Issue("checkout", call.a)
    /\ \/ /\ CanCheckout(call.a)
          /\ DoCheckout(call.a)
          /\ pc' = AfterCheckout
          /\ UNCHANGED <<remotes, tags, inProgress, outcome>>
       \/ /\ Finish(GitError("checkout"))
          /\ UNCHANGED repo
    /\ UNCHANGED <<call, progress, caught, resolved, pre, ncalls, history, inventory, library>>

\* `Failed to create backup tag: ${error.message}`
BackupFailed(e) == [kind |-> "BackupFailed", msg |-> e.msg]

\* catch (error) { throw new Error(`Failed to create backup tag: ...`) }
BackupCatchSwallows(error) == pc' = "fin_reset" /\ UNCHANGED outcome
BackupCatch(error) == Finish(BackupFailed(error))

\* const currentSha = (await this.git.revparse([currentBranch])).trim()
FinRevParse ==
    /\ pc = "fin_revparse"
    /\ Issue("rev-parse", call.a)
    /\ \/ /\ Tip(call.a) # NoCommit
          /\ pc' = "fin_tag"
          /\ UNCHANGED outcome
       \/ BackupCatch(GitError("rev-parse"))
    /\ UNCHANGED <<repo, call, progress, caught, resolved, pre, ncalls, history, inventory, library>>

\* `agrb-backup-${safeBranch}-${Date.now()}`
TagName(branch, now) == [branch |-> safeBranch(branch), ts |-> now]

\* await this.git.addAnnotatedTag(tagName, message): git tag -a tags HEAD
FinTag ==
    /\ pc = "fin_tag"
    /\ \E now \in Times :
         /\ Issue("tag", NoRef)
         /\ \/ /\ \A t \in tags : t.name # TagName(call.a, now)
               /\ tags' = tags \cup {[name |-> TagName(call.a, now), target |-> Tip(head)]}
               /\ pc' = "fin_reset"
               /\ UNCHANGED outcome
            \/ /\ BackupCatch(GitError("tag"))
               /\ UNCHANGED tags
    /\ UNCHANGED <<tips, remotes, head, inProgress, call, progress, caught, resolved, pre, ncalls, history, inventory, library>>

\* git reset --hard HEAD, which moves no branch
ResetTargetHead(tempBranchName) == Tip(head)
\* the commit reset --hard <tempBranchName> moves the checked-out branch to
ResetTarget(tempBranchName) == Resolve(tempBranchName)

\* await this.git.raw(["reset", "--hard", tempBranchName])
FinReset ==
    /\ pc = "fin_reset"
    /\ Issue("reset --hard", call.b)
    /\ \/ /\ Resolve(call.b) # NoCommit
          /\ tips' = [tips EXCEPT ![head] = ResetTarget(call.b)]
          /\ Finish(Ok)
       \/ /\ Finish(GitError("reset --hard"))
          /\ UNCHANGED tips
    /\ UNCHANGED <<remotes, head, tags, inProgress, call, progress, caught, resolved, pre, ncalls, history, inventory, library>>

\* ----------------------------------------------------- performLinearRebase
InvalidReference == [kind |-> "InvalidReference", msg |-> "Invalid branch name"]
TargetNotFound   == [kind |-> "TargetNotFound", msg |-> "Target branch does not exist"]
\* `Linear rebase failed: ${error.message}`
RebaseFailed(e) == [kind |-> "RebaseFailed", msg |-> e.msg]
\* `Linear rebase failed during continue: ${e.message}`
RebaseContinueFailed(e) == [kind |-> "RebaseContinueFailed", msg |-> e.msg]

\* what progressCallback throws when it throws
CallbackError == [kind |-> "CallbackError", msg |-> "progressCallback threw"]

\* git and the callback are free to behave in any way, unless the run is
\* followed with a fixed behaviour of both: the commands in frame.fails fail,
\* the callback throws on the messages in frame.throws
Free == frame.op # "progressCallback"
GitWorks(c) == IF Free THEN TRUE ELSE c \notin frame.fails
GitFails(c) == IF Free THEN TRUE ELSE c \in frame.fails
Throws(message) == IF Free THEN FALSE ELSE call.cb /\ message \in frame.throws

\* progressCallback?.(message)
Said(p, message) == IF call.cb THEN Append(p, message) ELSE p
Say(message) == progress' = Said(progress, message)

\* an error thrown inside the outer try: control passes to the catch block,
\* which starts the auto-resolve path with continueOnConflict (call.flag)
\* and the abort path without it
CatchOuterRethrows(error) ==
    /\ caught' = error
    /\ pc' = "done"
    /\ outcome' = [kind |-> IF call.flag THEN "RebaseContinueFailed" ELSE "RebaseFailed",
                   msg |-> error.msg]
    /\ UNCHANGED progress
CatchOuterAlwaysAborts(error) ==
    /\ caught' = error
    /\ pc' = "lin_abort"
    /\ UNCHANGED <<progress, outcome>>
CatchOuterFrom(p, error) ==
    /\ UNCHANGED outcome
    /\ IF call.flag
       THEN /\ progress' = Said(p, "Conflicts detected, auto-resolving and continuing...")
            /\ IF Throws("Conflicts detected, auto-resolving and continuing...")
               THEN caught' = CallbackError /\ pc' = "lin_abort"
               ELSE caught' = error /\ pc' = "lin_ours"
       ELSE caught' = error /\ pc' = "lin_abort" /\ progress' = p
CatchOuter(error) == CatchOuterFrom(progress, error)

\* progressCallback?.(message) inside the outer try: the call goes on to
\* its next position, or to the catch block when the callback throws
Tell(message, next) ==
    IF Throws(message)
    THEN CatchOuterFrom(Said(progress, message), CallbackError)
    ELSE pc' = next /\ Say(message) /\ UNCHANGED <<caught, outcome>>

\* an error thrown inside the inner try (the auto-resolve path)
CatchInner(e) ==
    /\ caught' = e
    /\ pc' = "lin_abort"
    /\ UNCHANGED outcome

\* the error the catch block finally throws
LinearError(e) ==
    IF call.flag THEN RebaseContinueFailed(e) ELSE RebaseFailed(e)

\* await this.git.raw(["show-ref", "--verify", "--quiet", ref]) resolves:
\* for a ref that does not exist git exits with code 1 and prints nothing,
\* and simple-git, configured without an errors handler, rejects a task only
\* for a non-zero exit code together with output on stderr; so the call
\* resolves for a missing ref as it does for one that exists. When git fails
\* with a message the call rejects: that is the other disjunct where this
\* is used.
ShowRefRejectsMissing(exists) == exists
ShowRefResolves(exists) == TRUE

\* performLinearRebase(currentBranch = call.a, targetBranch = call.b,
\*                     progressCallback (call.cb: supplied),
\*                     {continueOnConflict = call.flag}):
\* the validation, then the first progress message
LinearGuard(targetBranch) == isValidBranchName(targetBranch)

PerformLinearRebase(currentBranch, targetBranch, cb, continueOnConflict) ==
    /\ Enter("performLinearRebase", currentBranch, targetBranch, continueOnConflict, cb)
    /\ IF ~LinearGuard(targetBranch)
       THEN /\ Finish(InvalidReference)
            /\ UNCHANGED progress
       ELSE /\ pc' = "lin_fetch"
            /\ progress' = IF cb THEN <<"Fetching all branches...">> ELSE <<>>
            /\ UNCHANGED outcome
    /\ cmds' = <<>>
    /\ UNCHANGED repo

\* await this.fetchAll(): git fetch --all may create or move one
\* remote-tracking ref
LinFetch ==
    /\ pc = "lin_fetch"
    /\ IF Throws("Fetching all branches...")
       THEN /\ CatchOuterFrom(progress, CallbackError)
            /\ UNCHANGED <<cmds, remotes>>
       ELSE /\ Issue("fetch --all", NoRef)
            /\ \/ /\ GitWorks("fetch --all")
                  /\ \E n \in RemoteNames, c \in Commits \cup {NoCommit} :
                        /\ (c = NoCommit => remotes[n] = NoCommit)
                        /\ Free \/ c = remotes[n]
                        /\ remotes' = [remotes EXCEPT ![n] = c]
                  /\ Tell("Checking if target branch exists...", "lin_exists_remote")
               \/ /\ GitFails("fetch --all")
                  /\ CatchOuter(GitError("fetch --all"))
                  /\ UNCHANGED remotes
    /\ UNCHANGED <<tips, head, tags, inProgress, call, resolved, pre, ncalls, history, inventory, library>>

\* branchExists(targetBranch), first probe: show-ref refs/remotes/origin/<t>
LinExistsRemote ==
    /\ pc = "lin_exists_remote"
    /\ Issue("show-ref", OriginRef(call.b))
    /\ \/ /\ ShowRefResolves(RemoteTip(call.b) # NoCommit)
          /\ GitWorks("show-ref")
          /\ Tell("Starting linear rebase...", "lin_checkout")
       \/ /\ GitFails("show-ref") \/ ~ShowRefResolves(RemoteTip(call.b) # NoCommit)
          /\ pc' = "lin_exists_local"
          /\ UNCHANGED <<progress, outcome, caught>>
    /\ UNCHANGED <<repo, call, resolved, pre, ncalls, history, inventory, library>>

\* branchExists(targetBranch), second probe: show-ref refs/heads/<t>;
\* when it fails too the target does not exist and the error is thrown
LinExistsLocal ==
    /\ pc = "lin_exists_local"
    /\ Issue("show-ref", call.b)
    /\ \/ /\ ShowRefResolves(Tip(call.b) # NoCommit)
          /\ GitWorks("show-ref")
          /\ Tell("Starting linear rebase...", "lin_checkout")
       \/ /\ GitFails("show-ref") \/ ~ShowRefResolves(Tip(call.b) # NoCommit)
          /\ CatchOuter(TargetNotFound)
    /\ UNCHANGED <<repo, call, resolved, pre, ncalls, history, inventory, library>>

\* await this.git.checkout(currentBranch)
LinCheckout ==
    /\ pc = "lin_checkout"
    /\ Issue("checkout", call.a)
    /\ \/ /\ CanCheckout(call.a)
          /\ GitWorks("checkout")
          /\ DoCheckout(call.a)
          /\ pc' = "lin_resolve"
          /\ UNCHANGED <<caught, progress, outcome>>
       \/ /\ GitFails("checkout") \/ ~CanCheckout(call.a)
          /\ CatchOuter(GitError("checkout"))
          /\ UNCHANGED <<tips, head>>
    /\ UNCHANGED <<remotes, tags, inProgress, call, resolved, pre, ncalls, history, inventory, library>>

\* const rebaseTarget = await this.resolveBranchRef(targetBranch)
LinResolve ==
    /\ pc = "lin_resolve"
    /\ Issue("show-ref", OriginRef(call.b))
    /\ \/ /\ ShowRefResolves(RemoteTip(call.b) # NoCommit)
          /\ GitWorks("show-ref")
          /\ resolved' = OriginRef(call.b)
       \/ /\ GitFails("show-ref") \/ ~ShowRefResolves(RemoteTip(call.b) # NoCommit)
          /\ resolved' = call.b
    /\ pc' = "lin_rebase"
    /\ UNCHANGED <<repo, call, progress, outcome, caught, pre, ncalls, history, inventory, library>>

\* const rebaseArgs = ["rebase", rebaseTarget]; with continueOnConflict
\* "-X", "ours" is pushed
RebaseAlwaysOurs == "rebase -X ours"
RebaseCommand == IF call.flag THEN "rebase -X ours" ELSE "rebase"

\* await this.git.raw(rebaseArgs): the rebase completes (the branch gets its
\* rebased tip), stops on a conflict (a rebase is left in progress) or fails
\* without starting
LinRebase ==
    /\ pc = "lin_rebase"
    /\ Issue(RebaseCommand, resolved)
    /\ \/ /\ Resolve(resolved) # NoCommit
          /\ inProgress = "none"
          /\ GitWorks("rebase") /\ GitWorks("rebase (conflict)")
          /\ \E c \in Commits :
                /\ Free \/ c = 1
                /\ tips' = [tips EXCEPT ![head] = c]
          /\ IF Throws("Linear rebase completed successfully")
             THEN CatchOuterFrom(Said(progress, "Linear rebase completed successfully"),
                                 CallbackError)
             ELSE /\ Say("Linear rebase completed successfully")
                  /\ Finish(Ok)
                  /\ UNCHANGED caught
          /\ UNCHANGED inProgress
       \/ /\ Resolve(resolved) # NoCommit
          /\ inProgress = "none"
          /\ GitFails("rebase (conflict)") /\ GitWorks("rebase")
          /\ inProgress' = "rebase"
          /\ CatchOuter(GitError("rebase"))
          /\ UNCHANGED tips
       \/ /\ GitFails("rebase") \/ Resolve(resolved) = NoCommit \/ inProgress # "none"
          /\ CatchOuter(GitError("rebase"))
          /\ UNCHANGED <<tips, inProgress>>
    /\ UNCHANGED <<remotes, head, tags, call, resolved, pre, ncalls, history, inventory, library>>

\* await this.git.checkout(["--ours", "."])
LinOurs ==
    /\ pc = "lin_ours"
    /\ Issue("checkout --ours .", NoRef)
    /\ \/ GitWorks("checkout --ours .") /\ pc' = "lin_add" /\ UNCHANGED <<caught, outcome>>
       \/ GitFails("checkout --ours .") /\ CatchInner(GitError("checkout --ours ."))
    /\ UNCHANGED <<repo, call, progress, resolved, pre, ncalls, history, inventory, library>>

\* await this.git.add(".")
LinAdd ==
    /\ pc = "lin_add"
    /\ Issue("add .", NoRef)
    /\ \/ GitWorks("add .") /\ pc' = "lin_continue" /\ UNCHANGED <<caught, outcome>>
       \/ GitFails("add .") /\ CatchInner(GitError("add ."))
    /\ UNCHANGED <<repo, call, progress, resolved, pre, ncalls, history, inventory, library>>

\* await this.git.raw(["rebase", "--continue"]): completes the rebase in
\* progress, or fails (none in progress, or it stops again)
LinContinue ==
    /\ pc = "lin_continue"
    /\ Issue("rebase --continue", NoRef)
    /\ \/ /\ inProgress = "rebase"
          /\ GitWorks("rebase --continue")
          /\ inProgress' = "none"
          /\ \E c \in Commits :
                /\ Free \/ c = 1
                /\ tips' = [tips EXCEPT ![head] = c]
          /\ Say("Linear rebase completed with conflicts auto-resolved")
          /\ IF Throws("Linear rebase completed with conflicts auto-resolved")
             THEN CatchInner(CallbackError)
             ELSE Finish(Ok) /\ UNCHANGED caught
       \/ /\ GitFails("rebase --continue") \/ inProgress # "rebase"
          /\ CatchInner(GitError("rebase --continue"))
          /\ UNCHANGED <<tips, inProgress, progress>>
    /\ UNCHANGED <<remotes, head, tags, call, resolved, pre, ncalls, history, inventory, library>>

\* try { await this.git.raw(["rebase", "--abort"]) } catch {}, then the throw
LinAbort ==
    /\ pc = "lin_abort"
    /\ Issue("rebase --abort", NoRef)
    /\ \/ /\ inProgress = "rebase"
          /\ GitWorks("rebase --abort")
          /\ inProgress' = "none"
       \/ /\ GitFails("rebase --abort") \/ inProgress # "rebase"
          /\ UNCHANGED inProgress
    /\ Finish(LinearError(caught))
    /\ UNCHANGED <<tips, remotes, head, tags, call, progress, caught, resolved, pre, ncalls, history, inventory, library>>

\* ------------------------------------------------- the single-query operations
Returned(v) == [kind |-> "ok", msg |-> v]

\* a deleteLocalBranch that checks nothing
DeleteLocalGuardMissing(branch) == TRUE
\* if (!isValidBranchName(branch)) throw new Error(`Invalid branch name: ...`)
DeleteLocalGuard(branch) == isValidBranchName(branch)

\* deleteLocalBranch(branch, {force}): git branch -d|-D <branch>
DeleteLocalBranch(branch, force) ==
    /\ Enter("deleteLocalBranch", branch, NoRef, force, FALSE)
    /\ pc' = "done"
    /\ IF ~DeleteLocalGuard(branch)
       THEN /\ cmds' = <<>>
            /\ outcome' = InvalidReference
            /\ UNCHANGED tips
       ELSE /\ cmds' = <<Cmd(IF force THEN "branch -D" ELSE "branch -d", branch)>>
            /\ \/ /\ Tip(branch) # NoCommit
                  /\ head # branch
                  /\ tips' = [tips EXCEPT ![branch] = NoCommit]
                  /\ outcome' = Ok
               \/ /\ outcome' = GitError("branch -d")
                  /\ UNCHANGED tips
    /\ UNCHANGED <<remotes, head, tags, inProgress, progress>>

DeleteRemoteGuard(name) == isValidBranchName(name)

\* deleteRemoteBranch({remote: "origin", name}): git push origin --delete <name>
DeleteRemoteBranch(name) ==
    /\ Enter("deleteRemoteBranch", name, NoRef, FALSE, FALSE)
    /\ pc' = "done"
    /\ IF ~DeleteRemoteGuard(name)
       THEN /\ cmds' = <<>>
            /\ outcome' = InvalidReference
            /\ UNCHANGED remotes
       ELSE /\ cmds' = <<Cmd("push --delete", name)>>
            /\ \/ /\ RemoteTip(name) # NoCommit
                  /\ remotes' = [remotes EXCEPT ![name] = NoCommit]
                  /\ outcome' = Ok
               \/ /\ outcome' = GitError("push --delete")
                  /\ UNCHANGED remotes
    /\ UNCHANGED <<tips, head, tags, inProgress, progress>>

BranchExistsGuard(branch) == isValidBranchName(branch)

\* branchExists(branch): show-ref of the remote-tracking ref, then, when
\* that fails, of the local ref
BranchExists(branch) ==
    /\ Enter("branchExists", branch, NoRef, FALSE, FALSE)
    /\ pc' = "done"
    /\ IF ~BranchExistsGuard(branch)
       THEN /\ cmds' = <<>>
            /\ outcome' = InvalidReference
       ELSE \/ /\ ShowRefResolves(RemoteTip(branch) # NoCommit)
               /\ cmds' = <<Cmd("show-ref", OriginRef(branch))>>
               /\ outcome' = Returned("true")
            \/ /\ cmds' = <<Cmd("show-ref", OriginRef(branch)), Cmd("show-ref", branch)>>
               /\ \/ ShowRefResolves(Tip(branch) # NoCommit) /\ outcome' = Returned("true")
                  \/ outcome' = Returned("false")
    /\ UNCHANGED <<repo, progress>>

SetupGuard(targetBranch) == isValidBranchName(targetBranch)

\* git checkout -b <tempBranchName> <checkoutTarget>
CanCreate(name, start) == Tip(name) = NoCommit /\ Resolve(start) # NoCommit

\* setupCherryPick(targetBranch): resolveBranchRef(targetBranch), then
\* checkout -b temp-rebase-<pid> <checkoutTarget>
SetupCherryPick(targetBranch) ==
    /\ Enter("setupCherryPick", targetBranch, NoRef, FALSE, FALSE)
    /\ pc' = "done"
    /\ IF ~SetupGuard(targetBranch)
       THEN /\ cmds' = <<>>
            /\ outcome' = InvalidReference
            /\ UNCHANGED <<tips, head>>
       ELSE \E checkoutTarget \in {targetBranch} \cup
                    {r \in {OriginRef(targetBranch)} :
                        ShowRefResolves(RemoteTip(targetBranch) # NoCommit)} :
              /\ cmds' = <<Cmd("show-ref", OriginRef(targetBranch)),
                           Cmd("checkout -b", checkoutTarget)>>
              /\ \/ /\ CanCreate(TempBranchName, checkoutTarget)
                    /\ tips' = [tips EXCEPT ![TempBranchName] = Resolve(checkoutTarget)]
                    /\ head' = TempBranchName
                    /\ outcome' = Returned("tempBranchName")
                 \/ /\ outcome' = GitError("checkout -b")
                    /\ UNCHANGED <<tips, head>>
    /\ UNCHANGED <<remotes, tags, inProgress, progress>>

MergeBaseGuard(branch1, branch2) ==
    isValidBranchName(branch1) /\ isValidBranchName(branch2)

\* getMergeBase(branch1, branch2): resolveBranchRef(branch1), then
\* git merge-base <baseBranch> <branch2>
GetMergeBase(branch1, branch2) ==
    /\ Enter("getMergeBase", branch1, branch2, FALSE, FALSE)
    /\ pc' = "done"
    /\ IF ~MergeBaseGuard(branch1, branch2)
       THEN /\ cmds' = <<>>
            /\ outcome' = InvalidReference
       ELSE \E baseBranch \in {branch1} \cup
                    {r \in {OriginRef(branch1)} :
                        ShowRefResolves(RemoteTip(branch1) # NoCommit)} :
              /\ cmds' = <<Cmd("show-ref", OriginRef(branch1)), Cmd("merge-base", baseBranch)>>
              /\ \/ /\ Resolve(baseBranch) # NoCommit
                    /\ Resolve(branch2) # NoCommit
                    /\ outcome' = Returned("sha")
                 \/ outcome' = GitError("merge-base")
    /\ UNCHANGED <<repo, progress>>

\* pushWithLease(branch): git push -u origin <branch> --force-with-lease
PushWithLease(branch) ==
    /\ Enter("pushWithLease", branch, NoRef, FALSE, FALSE)
    /\ pc' = "done"
    /\ cmds' = <<Cmd("push --force-with-lease", branch)>>
    /\ \/ /\ Tip(branch) # NoCommit
          /\ branch \in RemoteNames
          /\ remotes' = [remotes EXCEPT ![branch] = Tip(branch)]
          /\ outcome' = Ok
       \/ /\ outcome' = GitError("push")
          /\ UNCHANGED remotes
    /\ UNCHANGED <<tips, head, tags, inProgress, progress>>

\* cleanupCherryPick(tempBranchName, originalBranch): every failure inside
\* is swallowed by the catch {}
\* cleanupCherryPick: try { ... } catch {}: what the caller gets when a
\* command of the try block has failed
CleanupCatchRethrows(error) == error
CleanupCatch(error) == Ok

\* cleanupCherryPick without the test of the current branch
CleanupDeletesAnyway(tempBranchName, originalBranch) ==
    /\ Enter("cleanupCherryPick", tempBranchName, originalBranch, FALSE, FALSE)
    /\ pc' = "done"
    /\ cmds' = <<Cmd("status", NoRef), Cmd("branch -D", tempBranchName)>>
    /\ outcome' = Ok
    /\ UNCHANGED <<repo, progress>>
CleanupCherryPick(tempBranchName, originalBranch) ==
    /\ Enter("cleanupCherryPick", tempBranchName, originalBranch, FALSE, FALSE)
    /\ pc' = "done"
    /\ \/ /\ cmds' = <<Cmd("status", NoRef)>>
          /\ outcome' = CleanupCatch(GitError("status"))
          /\ UNCHANGED <<tips, head>>
       \/ /\ head = tempBranchName
          /\ cmds' = <<Cmd("status", NoRef), Cmd("checkout", originalBranch)>>
          /\ outcome' = CleanupCatch(GitError("checkout"))
          /\ UNCHANGED <<tips, head>>
       \/ /\ head = tempBranchName
          /\ CanCheckout(originalBranch)
          /\ cmds' = <<Cmd("status", NoRef), Cmd("checkout", originalBranch),
                       Cmd("branch -D", tempBranchName)>>
          /\ \/ /\ head' = originalBranch
                /\ tips' = [tips EXCEPT
                              ![originalBranch] = IF Tip(originalBranch) # NoCommit
                                                  THEN Tip(originalBranch)
                                                  ELSE RemoteTip(originalBranch),
                              ![tempBranchName] = IF originalBranch = tempBranchName
                                                  THEN @ ELSE NoCommit]
                /\ outcome' = Ok
             \/ /\ DoCheckout(originalBranch)
                /\ outcome' = CleanupCatch(GitError("branch -D"))
       \/ /\ head # tempBranchName
          /\ cmds' = <<Cmd("status", NoRef), Cmd("branch -D", tempBranchName)>>
          /\ \/ /\ Tip(tempBranchName) # NoCommit
                /\ tips' = [tips EXCEPT ![tempBranchName] = NoCommit]
                /\ outcome' = Ok
             \/ /\ UNCHANGED tips
                /\ outcome' = CleanupCatch(GitError("branch -D"))
          /\ UNCHANGED head
    /\ UNCHANGED <<remotes, tags, inProgress, progress>>

\* ------------------------------------------------- getCommitsToCherryPick
\* the commits reachable from c, c included
RECURSIVE Reach(_, _)
Reach(g, c) ==
    {c} \cup UNION {Reach(g, g.parents[c][i]) : i \in 1..Len(g.parents[c])}

\* the committer date of c: the time of its creation, or 0 when it was
\* committed with a clock that runs behind
Date(g, c) == IF g.skew[c] THEN 0 ELSE c

\* git's commit_list_insert_by_date: c goes before the first entry that is
\* strictly older, so after the entries of its own date
InsertByDate(g, list, c) ==
    LET older == {i \in 1..Len(list) : Date(g, list[i]) < Date(g, c)}
        k == IF older = {} THEN Len(list) + 1
             ELSE CHOOSE i \in older : \A j \in older : i <= j
    IN  SubSeq(list, 1, k - 1) \o <<c>> \o SubSeq(list, k, Len(list))

RECURSIVE InsertParents(_, _, _, _, _)
InsertParents(g, list, ps, seen, wanted) ==
    IF ps = <<>> THEN list
    ELSE IF Head(ps) \in seen \/ Head(ps) \notin wanted
         THEN InsertParents(g, list, Tail(ps), seen, wanted)
         ELSE InsertParents(g, InsertByDate(g, list, Head(ps)), Tail(ps),
                            seen \cup {Head(ps)}, wanted)

\* git rev-list's walk without --topo-order or --date-order: the newest
\* pending commit is shown next and its parents become pending
RECURSIVE DateWalk(_, _, _, _)
DateWalk(g, list, seen, wanted) ==
    IF list = <<>> THEN <<>>
    ELSE LET c == Head(list)
             ps == g.parents[c]
             shown == {ps[i] : i \in 1..Len(ps)} \cap wanted
         IN  <<c>> \o DateWalk(g, InsertParents(g, Tail(list), ps, seen, wanted),
                               seen \cup shown, wanted)

Reverse(s) == [i \in 1..Len(s) |-> s[Len(s) + 1 - i]]
IsMerge(g, c) == Len(g.parents[c]) >= 2

\* the object name of commit c, as rev-list prints it
Sha(c) == <<ToString(c)>>

RECURSIVE Lines(_)
Lines(shown) ==
    IF shown = <<>> THEN <<>> ELSE Sha(Head(shown)) \o <<"\n">> \o Lines(Tail(shown))

\* git rev-list [--reverse] [--no-merges] <from>..<to>: one line per commit
RevList(g, reverse, noMerges, from, to) ==
    LET wanted == Reach(g, to) \ Reach(g, from)
        walk == IF to \in wanted THEN DateWalk(g, <<to>>, {to}, wanted) ELSE <<>>
        kept == SelectSeq(walk, LAMBDA c : ~(noMerges /\ IsMerge(g, c)))
    IN  Lines(IF reverse THEN Reverse(kept) ELSE kept)

\* const result = await this.git.raw(["rev-list", "--reverse", "--no-merges",
\* `${from}..${to}`]); return result.trim().split("\n").filter(Boolean);
getCommitsToCherryPick(g, from, to) ==
    filterBoolean(Split(trim(RevList(g, TRUE, TRUE, from, to)), "\n"))

\* one call of getCommitsToCherryPick(from, to): the command is issued and
\* its parsed output returned
GetCommits(from, to) ==
    /\ Issue("rev-list --reverse --no-merges", NoRef)
    /\ range' = [from |-> from, to |-> to]
    /\ queue' = getCommitsToCherryPick(graph, from, to)

\* getCommitsToCherryPick(from, to) is called on the newest commit and any
\* commit of the graph, in either order
GetCommitsToCherryPick ==
    /\ range = NoRange
    /\ \E c \in 1..graph.n, swap \in BOOLEAN :
         IF swap THEN GetCommits(graph.n, c) ELSE GetCommits(c, graph.n)
    /\ UNCHANGED <<repo, pc, call, progress, outcome, caught, resolved, pre, ncalls,
                   graph, pickHead, applied, phase, cursor, inventory, library>>

NextRevList == GetCommitsToCherryPick

\* the finish step of the cherry-pick strategy
\* ------------------------------------------- the cherry-pick primitives
\* the commit a successful cherry-pick creates: replayed commits are numbered
\* after the commits of the graph
NewCommit == MaxNodes + Len(applied) + 1

\* what the primitives leave alone
PickFrame ==
    UNCHANGED <<remotes, head, tags, pc, call, progress, caught, resolved, pre,
                ncalls, graph, range, queue, inventory, library>>

\* const args = ["cherry-pick"];
\* if (options?.allowEmpty) args.push("--allow-empty"); args.push(commitSha)
cherryPickArgs(allowEmpty) ==
    IF allowEmpty THEN "cherry-pick --allow-empty" ELSE "cherry-pick"

\* cherryPick(commitSha, {allowEmpty}): git applies the commit, or stops with
\* CHERRY_PICK_HEAD set (a conflict, an empty result), or refuses
CherryPick(commitSha, allowEmpty) ==
    /\ Issue(cherryPickArgs(allowEmpty), commitSha)
    /\ \/ /\ inProgress = "none"
          /\ applied' = Append(applied, commitSha)
          /\ tips' = [tips EXCEPT ![head] = NewCommit]
          /\ outcome' = Ok
          /\ UNCHANGED <<inProgress, pickHead>>
       \/ /\ inProgress = "none"
          /\ inProgress' = "cherry-pick"
          /\ pickHead' = commitSha
          /\ outcome' = GitError("cherry-pick")
          /\ UNCHANGED <<tips, applied>>
       \/ /\ outcome' = GitError("cherry-pick")
          /\ UNCHANGED <<tips, applied, inProgress, pickHead>>
    /\ PickFrame

\* continueCherryPick(): git commits the resolved cherry-pick, or refuses
ContinueCherryPick ==
    /\ Issue("cherry-pick --continue", NoRef)
    /\ \/ /\ inProgress = "cherry-pick"
          /\ applied' = Append(applied, pickHead)
          /\ tips' = [tips EXCEPT ![head] = NewCommit]
          /\ inProgress' = "none"
          /\ pickHead' = NoRef
          /\ outcome' = Ok
       \/ /\ outcome' = GitError("cherry-pick --continue")
          /\ UNCHANGED <<tips, applied, inProgress, pickHead>>
    /\ PickFrame

\* skipCherryPick(): git drops the stopped cherry-pick, or refuses
SkipCherryPick ==
    /\ Issue("cherry-pick --skip", NoRef)
    /\ \/ /\ inProgress = "cherry-pick"
          /\ inProgress' = "none"
          /\ pickHead' = NoRef
          /\ outcome' = Ok
       \/ /\ outcome' = GitError("cherry-pick --skip")
          /\ UNCHANGED <<inProgress, pickHead>>
    /\ UNCHANGED <<tips, applied>>
    /\ PickFrame

\* abortCherryPick(): try { cherry-pick --abort } catch {}
AbortCatchRethrows(error) == error
AbortCatch(error) == Ok

AbortCherryPick ==
    /\ Issue("cherry-pick --abort", NoRef)
    /\ \/ /\ inProgress = "cherry-pick"
          /\ inProgress' = "none"
          /\ pickHead' = NoRef
          /\ outcome' = Ok
       \/ /\ UNCHANGED <<inProgress, pickHead>>
          /\ outcome' = AbortCatch(GitError("cherry-pick --abort"))
    /\ UNCHANGED <<tips, applied>>
    /\ PickFrame

\* resolveConflictWithStrategy(strategy): checkout --<strategy> . ; add .
ResolveConflictWithStrategy(strategy) ==
    /\ \/ /\ cmds' = cmds \o <<Cmd("checkout --" \o strategy \o " .", NoRef),
                               Cmd("add .", NoRef)>>
          /\ outcome' \in {Ok, GitError("add")}
       \/ /\ Issue("checkout --" \o strategy \o " .", NoRef)
          /\ outcome' = GitError("checkout")
    /\ UNCHANGED <<tips, applied, inProgress, pickHead>>
    /\ PickFrame

\* ------------------------------------- the cherry-pick session (section 3)
\* the cursor moves to the next entry of the queue
Restart(c) == 1
Advance(c) == c + 1

\* TempBranchCreated -> Replaying: the queue is computed, once
StartReplay ==
    /\ pc = "idle"
    /\ phase = "TempBranchCreated"
    /\ GetCommits(tips[Main], tips[Feature])
    /\ phase' = "Replaying"
    /\ cursor' = 1
    /\ UNCHANGED <<repo, pc, call, progress, outcome, caught, resolved, pre, ncalls,
                   graph, pickHead, applied, inventory, library>>

\* Replaying(cursor): the commit under the cursor is cherry-picked
Replay ==
    /\ pc = "idle"
    /\ phase = "Replaying"
    /\ cursor <= Len(queue)
    /\ Len(cmds) < MaxSteps
    /\ \E allowEmpty \in BOOLEAN : CherryPick(queue[cursor], allowEmpty)
    /\ IF outcome' = Ok
       THEN phase' = "Replaying" /\ cursor' = Advance(cursor)
       ELSE phase' = "Resolving" /\ cursor' = cursor

\* Resolving: one side is accepted for every conflicted path
Resolve1 ==
    /\ pc = "idle"
    /\ phase = "Resolving"
    /\ Len(cmds) + 1 < MaxSteps
    /\ \E strategy \in {"ours", "theirs"} : ResolveConflictWithStrategy(strategy)
    /\ UNCHANGED <<phase, cursor>>

\* Continuing: the stopped cherry-pick is committed and the replay goes on
Continue ==
    /\ pc = "idle"
    /\ phase = "Resolving"
    /\ Len(cmds) < MaxSteps
    /\ ContinueCherryPick
    /\ IF outcome' = Ok
       THEN phase' = "Replaying" /\ cursor' = Advance(cursor)
       ELSE UNCHANGED <<phase, cursor>>

\* the stopped commit is left out and the replay goes on
Skip ==
    /\ pc = "idle"
    /\ phase = "Resolving"
    /\ Len(cmds) < MaxSteps
    /\ SkipCherryPick
    /\ IF outcome' = Ok
       THEN phase' = "Replaying" /\ cursor' = Advance(cursor)
       ELSE UNCHANGED <<phase, cursor>>

\* Aborted: the session is discarded
Abort ==
    /\ pc = "idle"
    /\ phase \in {"Replaying", "Resolving"}
    /\ Len(cmds) < MaxSteps
    /\ AbortCherryPick
    /\ phase' = "Aborted"
    /\ UNCHANGED cursor

NextSession ==
    \/ StartReplay
    \/ Replay
    \/ Resolve1
    \/ Continue
    \/ Skip
    \/ Abort

\* ------------------------------------ the whole session (sections 3 and 4)
\* what a step of the session that starts or follows a call leaves alone
LifeFrame == UNCHANGED <<graph, range, queue, pickHead, applied, cursor>>

\* Idle: the session starts with setupCherryPick(target)
LifeSetup ==
    /\ phase = "Idle"
    /\ ncalls = 0
    /\ SetupCherryPick(Main)

\* Idle -> TempBranchCreated, or the session fails
LifeCreated ==
    /\ phase = "Idle"
    /\ call.op = "setupCherryPick"
    /\ Taken
    /\ phase' = IF outcome.kind = "ok" THEN "TempBranchCreated" ELSE "Failed"
    /\ LifeFrame

\* the queue is exhausted: finishCherryPick(currentBranch, tempBranch, options)
LifeFinish ==
    /\ phase = "Replaying"
    /\ cursor > Len(queue)
    /\ \E createBackup \in BOOLEAN :
         FinishCherryPick(Feature, TempBranchName, createBackup)

\* finishCherryPick returned or threw
LifeFinished ==
    /\ phase = "Replaying"
    /\ call.op = "finishCherryPick"
    /\ Taken
    /\ phase' = IF outcome.kind = "ok" THEN "Finished" ELSE "Failed"
    /\ LifeFrame

\* success, user abort or failure: cleanupCherryPick(tempBranch, currentBranch)
LifeCleanup ==
    /\ phase \in {"Finished", "Aborted", "Failed"}
    /\ CleanupCherryPick(TempBranchName, Feature)

\* the session is discarded: Finalized after a success
LifeDiscarded ==
    /\ phase \in {"Finished", "Aborted", "Failed"}
    /\ call.op = "cleanupCherryPick"
    /\ Taken
    /\ phase' = IF phase = "Finished" THEN "Finalized" ELSE "Discarded"
    /\ LifeFrame

NextLifecycle ==
    \/ LifeSetup
    \/ LifeCreated
    \/ StartReplay
    \/ Replay
    \/ Resolve1
    \/ Continue
    \/ Skip
    \/ Abort
    \/ LifeFinish
    \/ FinCheckout
    \/ FinRevParse
    \/ FinTag
    \/ FinReset
    \/ LifeFinished
    \/ LifeCleanup
    \/ LifeDiscarded

\* ------------------------------------------------- the branch inventory
\* Text is the sequence of its pieces: a separator or a blank is one piece, a
\* run of other characters is one piece.
main    == <<"main">>
master  == <<"master">>
develop == <<"develop">>
HEAD    == <<"HEAD">>
NUL     == "NUL"
Arrow   == <<" ", "->", " ">>
RefsHeads   == <<"refs", "/", "heads", "/">>
RefsRemotes == <<"refs", "/", "remotes", "/">>

defaultRemoteBranches == <<OriginRef(main), OriginRef(master), OriginRef(develop)>>
defaultLocalBranches  == <<main, master, develop>>

\* the text git prints for the committer date t, and a text no Date parses
IsoDate(t) == <<ToString(t)>>
BadDate == <<"?">>

\* the pieces of a list of texts, one after the other
RECURSIVE Flatten(_)
Flatten(texts) ==
    IF texts = <<>> THEN <<>> ELSE Head(texts) \o Flatten(Tail(texts))

\* the branches of one kind in the order git lists them (by refname)
LocalOrder  == <<develop, Feature, main, master>>
RemoteOrder == <<OriginRef(HEAD), OriginRef(develop), OriginRef(Feature),
                 OriginRef(main), OriginRef(master)>>
LocalNames  == {LocalOrder[i] : i \in 1..Len(LocalOrder)}
RemoteRefs  == {RemoteOrder[i] : i \in 1..Len(RemoteOrder)}
BranchNames == LocalNames \cup (RemoteRefs \ {OriginRef(HEAD)})

\* ---- what git prints
\* one line of git for-each-ref --format=BRANCH_LIST_FORMAT <prefix>
RefLine(prefix, b) ==
    prefix \o b.short \o <<NUL>> \o b.date \o <<NUL>> \o b.sha \o <<NUL>>
        \o b.subject \o <<"\n">>

ForEachRef(prefix, refs) == Flatten([i \in 1..Len(refs) |-> RefLine(prefix, refs[i])])

\* one line of git branch [-r] --merged: the checked-out branch is starred,
\* a symbolic ref is printed with its target
MergedLine(b) ==
    (IF b.current THEN <<"*", " ">> ELSE <<" ", " ">>) \o b.short
        \o (IF b.symbolic THEN Arrow \o OriginRef(main) ELSE <<>>) \o <<"\n">>

BranchMerged(refs) ==
    Flatten([i \in 1..Len(refs) |-> IF refs[i].merged THEN MergedLine(refs[i]) ELSE <<>>])

\* the names simple-git gives as (await git.branch(...)).all
BranchAll(refs) == {refs[i].short : i \in 1..Len(refs)}

\* git rev-list --left-right --count <base>...<branch>
RevListCount(b) == <<ToString(b.behind), "\t", ToString(b.ahead), "\n">>

\* ---- what the code makes of it
\* Number(text) for the text of a small count; Number("") is 0
Number(text) ==
    IF text = <<>> THEN 0 ELSE CHOOSE n \in 0..9 : <<ToString(n)>> = text

\* new Date(dateStr), kept when it is a valid date: <<>> is null, <<t>> is
\* the date whose getTime() is t
parseDate(dateStr) ==
    IF \E t \in 0..9 : dateStr = IsoDate(t)
    THEN <<CHOOSE t \in 0..9 : dateStr = IsoDate(t)>>
    ELSE <<>>

\* s.replace(/^<prefix>/, "")
StripPrefix(s, prefix) ==
    IF Len(s) >= Len(prefix) /\ SubSeq(s, 1, Len(prefix)) = prefix
    THEN SubSeq(s, Len(prefix) + 1, Len(s))
    ELSE s

\* nameParts.join("/")
RECURSIVE JoinSlash(_)
JoinSlash(parts) ==
    IF parts = <<>> THEN <<>>
    ELSE IF Len(parts) = 1 THEN parts[1]
    ELSE parts[1] \o <<"/">> \o JoinSlash(Tail(parts))

\* the field of a split line, empty when the line has no such field
Field(fields, i) == IF i <= Len(fields) THEN fields[i] ELSE <<>>

\* parseBranchLine(line, type): the records it returns, none when it
\* returns null; a null field is <<>>
parseBranchLineAnyName(line, type) ==
    LET fields   == Split(line, NUL)
        shortRef == StripPrefix(StripPrefix(Field(fields, 1), RefsHeads), RefsRemotes)
        dateStr  == Field(fields, 2)
        parts    == SplitSlash(shortRef)
        common   == [ref |-> shortRef, type |-> type,
                     lastCommitDate |-> IF dateStr = <<>> THEN <<>> ELSE parseDate(dateStr),
                     lastCommitSha |-> trim(Field(fields, 3)),
                     lastCommitSubject |-> trim(Field(fields, 4))]
    IN  IF shortRef = <<>> \/ EndsWith(shortRef, <<"/">> \o HEAD) THEN <<>>
        ELSE IF type = "remote"
             THEN <<common @@ [name |-> JoinSlash(Tail(parts)), remote |-> parts[1]]>>
             ELSE <<common @@ [name |-> shortRef]>>

parseBranchLine(line, type) ==
    LET fields   == Split(line, NUL)
        shortRef == StripPrefix(StripPrefix(Field(fields, 1), RefsHeads), RefsRemotes)
        dateStr  == Field(fields, 2)
        parts    == SplitSlash(shortRef)
        remote   == parts[1]
        name     == JoinSlash(Tail(parts))
        common   == [ref |-> shortRef, type |-> type,
                     lastCommitDate |-> IF dateStr = <<>> THEN <<>> ELSE parseDate(dateStr),
                     lastCommitSha |-> trim(Field(fields, 3)),
                     lastCommitSubject |-> trim(Field(fields, 4))]
    IN  IF shortRef = <<>> \/ EndsWith(shortRef, <<"/">> \o HEAD) THEN <<>>
        ELSE IF type = "remote"
             THEN IF remote = <<>> \/ name = <<>> \/ name = HEAD THEN <<>>
                  ELSE <<common @@ [name |-> name, remote |-> remote]>>
             ELSE <<common @@ [name |-> shortRef]>>

\* listBranches(refPrefix, type) on the output of for-each-ref
listBranches(output, type) ==
    LET split == Split(output, "\n")
        lines == filterBoolean([i \in 1..Len(split) |-> trim(split[i])])
    IN  Flatten([i \in 1..Len(lines) |-> parseBranchLine(lines[i], type)])

\* line.replace(/\*/g, "")
StripStars(line) == SelectSeq(line, LAMBDA ch : ch # "*")
StripAndTrim(line) == trim(StripStars(line))

\* getMergedSet(type) on the output of git branch [-r] --merged
getMergedSet(output) ==
    LET split    == Split(output, "\n")
        lines    == [i \in 1..Len(split) |-> StripAndTrim(split[i])]
        filtered == SelectSeq(filterBoolean(lines), LAMBDA n : ~Contains(n, Arrow))
    IN  {filtered[i] : i \in 1..Len(filtered)}

\* the first entry of the list that is among the names, none: <<>>
FirstIncluded(defaults, names) ==
    LET hits == SelectSeq(defaults, LAMBDA b : b \in names)
    IN  IF hits = <<>> THEN <<>> ELSE <<hits[1]>>

Zero == [ahead |-> 0, behind |-> 0]

\* const [behind, ahead] = result.trim().split("\t").map(Number);
\* { ahead: ahead ?? 0, behind: behind ?? 0 }
parseCounts(result) ==
    LET split   == Split(trim(result), "\t")
        numbers == [i \in 1..Len(split) |-> Number(split[i])]
    IN  [ahead  |-> IF Len(numbers) >= 2 THEN numbers[2] ELSE 0,
         behind |-> numbers[1]]

\* a.lastCommitDate?.getTime() ?? 0
getTime(record) ==
    IF record.lastCommitDate = <<>> THEN 0 ELSE record.lastCommitDate[1]

\* the comparator of getBranchInfos
compareAscending(a, b) ==
    IF a.type # b.type THEN (IF a.type = "local" THEN -1 ELSE 1)
    ELSE getTime(a) - getTime(b)

compare(a, b) ==
    IF a.type # b.type THEN (IF a.type = "local" THEN -1 ELSE 1)
    ELSE getTime(b) - getTime(a)

\* Array.prototype.sort(compare): stable, x goes behind every entry that
\* does not compare above it
RECURSIVE Insert(_, _)
Insert(sorted, x) ==
    IF sorted = <<>> THEN <<x>>
    ELSE IF compare(sorted[Len(sorted)], x) <= 0 THEN Append(sorted, x)
    ELSE Append(Insert(SubSeq(sorted, 1, Len(sorted) - 1), x), sorted[Len(sorted)])

RECURSIVE sort(_)
sort(arr) ==
    IF arr = <<>> THEN <<>>
    ELSE Insert(sort(SubSeq(arr, 1, Len(arr) - 1)), arr[Len(arr)])

\* ---- the repositories the inventory is taken of
MaxDate == 2       \* committer dates are 0..MaxDate
MaxBranches == 3   \* branches of a repository

DateTexts == {<<>>, BadDate} \cup {IsoDate(t) : t \in 0..MaxDate}

\* the branches named in names, in git's order; date, merged and broken give
\* each branch its committer date, whether it is merged into HEAD and whether
\* git fails to count its commits against the base; the first local branch
\* is checked out, and a clone of origin/main has origin/HEAD
BranchesOf(order, names, date, merged, broken) ==
    LET shown == SelectSeq(order, LAMBDA n :
                     n \in names \/ (n = OriginRef(HEAD) /\ OriginRef(main) \in names))
    IN  [i \in 1..Len(shown) |->
            LET n == IF shown[i] = OriginRef(HEAD) THEN OriginRef(main) ELSE shown[i]
            IN  [short |-> shown[i], date |-> date[n], sha |-> <<"sha">>,
                 subject |-> <<"subject">>, merged |-> merged[n],
                 current |-> (i = 1 /\ order = LocalOrder),
                 symbolic |-> shown[i] = OriginRef(HEAD),
                 behind |-> 1, ahead |-> 2, broken |-> broken[n]]]

Listing(names, date, merged, broken, brokenQueries) ==
    [local  |-> BranchesOf(LocalOrder, names, date, merged, broken),
     remote |-> BranchesOf(RemoteOrder, names, date, merged, broken),
     broken |-> brokenQueries]

Subsets(names, most) == {S \in SUBSET names : Cardinality(S) <= most}

InventoryQueries ==
    {"branch --merged", "branch -r --merged", "branch -r", "branch",
     "for-each-ref refs/heads/", "for-each-ref refs/remotes/"}

\* every choice of the six default branches
NamedRepos ==
    {Listing(S, [n \in S |-> IsoDate(1)], [n \in S |-> FALSE], [n \in S |-> FALSE], {}) :
        S \in Subsets(BranchNames \ {Feature, OriginRef(Feature)}, MaxBranches)}

\* every choice of committer dates
DatedNames == {main, develop, Feature, OriginRef(Feature)}
DatedRepos ==
    UNION {{Listing(S, date, [n \in S |-> FALSE], [n \in S |-> FALSE], {}) :
                date \in [S -> DateTexts]} :
              S \in {T \in Subsets(DatedNames, MaxBranches) :
                        Cardinality(T) = Cardinality(DatedNames) \/ Cardinality(T) = MaxBranches}}

\* every choice of merged branches
MixedNames == {main, Feature, OriginRef(main), OriginRef(Feature)}
MergedRepos ==
    UNION {{Listing(S, [n \in S |-> IsoDate(1)], merged, [n \in S |-> FALSE], {}) :
                merged \in [S -> BOOLEAN]} :
              S \in Subsets(MixedNames, MaxBranches)}

\* every choice of branches git cannot count, with at most one failing query
BrokenRepos ==
    UNION {{Listing(S, [n \in S |-> IsoDate(1)], [n \in S |-> TRUE], broken, queries) :
                broken \in [S -> BOOLEAN],
                queries \in {{}} \cup {{q} : q \in InventoryQueries}} :
              S \in Subsets(MixedNames, MaxBranches)}

Repositories == NamedRepos \cup DatedRepos \cup MergedRepos \cup BrokenRepos

InitInventory ==
    /\ tips = [b \in RefNames |-> NoCommit]
    /\ remotes = [b \in RemoteNames |-> NoCommit]
    /\ head = Main
    /\ tags = {}
    /\ inProgress = "none"
    /\ InitProcess
    /\ graph = RootGraph
    /\ InitSessionIdle
    /\ listing \in Repositories
    /\ InitLibraryIdle

\* ---- getBranchInfos
\* a subprocess command of call id: branch i of allBranches, 0 for none
Query(id, c, ref, i) == [id |-> id, c |-> c, ref |-> ref, i |-> i]

MergedCommand(type) == IF type = "local" THEN "branch --merged" ELSE "branch -r --merged"
CountCommand == "rev-list --left-right --count"

\* the lists getBaseBranch goes through, with the command that gives the
\* branches each is looked up in
RemoteFirst == <<[c |-> "branch -r", defaults |-> defaultRemoteBranches],
                 [c |-> "branch", defaults |-> defaultLocalBranches]>>
LocalFirst  == <<[c |-> "branch", defaults |-> defaultLocalBranches],
                 [c |-> "branch -r", defaults |-> defaultRemoteBranches]>>
BaseOrder == RemoteFirst

InventoryFrame ==
    UNCHANGED <<repo, history, library, listing, previous, script, progress, caught,
                resolved, pre, call, ncalls>>

\* getBranchInfos({includeRemote}): the three promises of the first
\* Promise.all are created, each one running up to its first await
GetBranchInfos(includeRemote) ==
    /\ pc = "idle"
    /\ ncalls < MaxCalls
    /\ ncalls' = ncalls + 1
    /\ call' = [op |-> "getBranchInfos", a |-> NoRef, b |-> NoRef,
                flag |-> includeRemote, cb |-> FALSE]
    /\ pc' = "all1"
    /\ outcome' = NoError
    /\ infos' = <<>>
    /\ answers' = [NoAnswers EXCEPT
                     !.settled = IF includeRemote THEN {} ELSE {"remoteMerged"}]
    /\ LET started == <<"branch --merged">>
                      \o (IF includeRemote THEN <<"branch -r --merged">> ELSE <<>>)
                      \o <<BaseOrder[1].c>>
       IN  /\ cmds' = [i \in 1..Len(started) |-> Cmd(started[i], NoRef)]
           /\ inflight' = inflight \cup
                  {Query(ncalls + 1, started[i], NoRef, 0) : i \in 1..Len(started)}
    /\ UNCHANGED <<repo, history, library, listing, previous, script, progress, caught,
                   resolved, pre>>

\* the command belongs to the first Promise.all of the running call
Live(q) == q.id = ncalls /\ call.op = "getBranchInfos" /\ pc = "all1"

\* await Promise.all([...]) resumes when the three values have settled
AnySettled(ans) == {"localMerged", "baseBranch"} \cap ans.settled # {}
AllSettled(ans) == {"localMerged", "remoteMerged", "baseBranch"} \subseteq ans.settled

\* a promise of the first Promise.all is fulfilled; when it was the last,
\* getBranchInfos resumes and calls listBranches("refs/heads/", "local")
Fulfil(q, ans) ==
    /\ answers' = ans
    /\ IF AllSettled(ans)
       THEN /\ pc' = "list_local"
            /\ cmds' = Append(cmds, Cmd("for-each-ref refs/heads/", NoRef))
            /\ inflight' = (inflight \ {q})
                              \cup {Query(q.id, "for-each-ref refs/heads/", NoRef, 0)}
       ELSE /\ inflight' = inflight \ {q}
            /\ UNCHANGED <<pc, cmds>>
    /\ UNCHANGED <<outcome, infos>>

\* the command failed and nothing catches it: getBranchInfos throws
Reject(q) ==
    /\ pc' = "done"
    /\ outcome' = GitError(q.c)
    /\ inflight' = inflight \ {q}
    /\ UNCHANGED <<answers, cmds, infos>>

\* the command of a call that has thrown completes: nobody awaits it
Dropped(q) ==
    /\ inflight' = inflight \ {q}
    /\ UNCHANGED <<pc, outcome, answers, cmds, infos>>

\* getMergedSet(type): git branch [-r] --merged has completed
MergedSetDone(type) ==
    /\ \E q \in inflight :
         /\ q.c = MergedCommand(type)
         /\ IF ~Live(q) THEN Dropped(q)
            ELSE IF q.c \in listing.broken THEN Reject(q)
            ELSE IF type = "local"
                 THEN Fulfil(q, [answers EXCEPT
                          !.localMerged = getMergedSet(BranchMerged(listing.local)),
                          !.settled = @ \cup {"localMerged"}])
                 ELSE Fulfil(q, [answers EXCEPT
                          !.remoteMerged = getMergedSet(BranchMerged(listing.remote)),
                          !.settled = @ \cup {"remoteMerged"}])
    /\ InventoryFrame

\* what git branch -r and git branch list
Listed(c) == IF c = "branch -r" THEN BranchAll(listing.remote) ELSE BranchAll(listing.local)

\* getBaseBranch(): git branch -r has completed; the first default remote
\* branch that exists is the base, or git branch is asked for the local ones
BaseRemoteDone ==
    /\ \E q \in inflight :
         /\ q.c = BaseOrder[1].c
         /\ LET found == FirstIncluded(BaseOrder[1].defaults, Listed(q.c))
            IN  IF q.c \in listing.broken
                THEN IF Live(q) THEN Reject(q) ELSE Dropped(q)
                ELSE IF found # <<>>
                THEN IF Live(q)
                     THEN Fulfil(q, [answers EXCEPT !.baseBranch = found[1],
                                                    !.settled = @ \cup {"baseBranch"}])
                     ELSE Dropped(q)
                ELSE /\ inflight' = (inflight \ {q})
                                       \cup {Query(q.id, BaseOrder[2].c, NoRef, 0)}
                     /\ cmds' = IF Live(q) THEN Append(cmds, Cmd(BaseOrder[2].c, NoRef))
                                ELSE cmds
                     /\ UNCHANGED <<pc, outcome, answers, infos>>
    /\ InventoryFrame

\* getBaseBranch(): git branch has completed; the first default local branch
\* that exists is the base, or there is none (null)
BaseLocalDone ==
    /\ \E q \in inflight :
         /\ q.c = BaseOrder[2].c
         /\ LET found == FirstIncluded(BaseOrder[2].defaults, Listed(q.c))
            IN  IF ~Live(q) THEN Dropped(q)
                ELSE IF q.c \in listing.broken THEN Reject(q)
                ELSE Fulfil(q, [answers EXCEPT
                                  !.baseBranch = IF found # <<>> THEN found[1] ELSE NoRef,
                                  !.settled = @ \cup {"baseBranch"}])
    /\ InventoryFrame

\* the branch of the repository a record was made of
BranchOf(record) ==
    LET refs == IF record.type = "local" THEN listing.local ELSE listing.remote
    IN  refs[CHOOSE i \in 1..Len(refs) : refs[i].short = record.ref]

\* if (branch === base) return { ahead: 0, behind: 0 }
SameBranchNever(branch, base) == FALSE
SameBranch(branch, base) == branch = base

\* the branches getAheadBehind asks git about
Asked(all, baseBranch) ==
    {i \in 1..Len(all) : baseBranch # NoRef /\ ~SameBranch(all[i].ref, baseBranch)}

\* { ...branch, isMerged, ahead, behind } for every branch, in the order of
\* allBranches
AssembleLocalOnly(ans) ==
    [i \in 1..Len(ans.allBranches) |->
        LET branch == ans.allBranches[i]
        IN  branch @@ [isMerged |-> branch.ref \in ans.localMerged,
                       ahead |-> ans.counts[i].ahead,
                       behind |-> ans.counts[i].behind]]

Assemble(ans) ==
    [i \in 1..Len(ans.allBranches) |->
        LET branch == ans.allBranches[i]
        IN  branch @@ [isMerged |-> IF branch.type = "local"
                                    THEN branch.ref \in ans.localMerged
                                    ELSE branch.ref \in ans.remoteMerged,
                       ahead |-> ans.counts[i].ahead,
                       behind |-> ans.counts[i].behind]]

\* await Promise.all(allBranches.map(...)) resumes when every branch has
\* its counts
AnyCounted(ans, asked) == asked \cap ans.counted # {}
AllCounted(ans, asked) == asked \subseteq ans.counted

\* the counts of a branch settle; when they were the last, getBranchInfos
\* resumes, sorts and returns
Counted(ans) ==
    /\ answers' = ans
    /\ IF AllCounted(ans, Asked(ans.allBranches, ans.baseBranch))
       THEN /\ pc' = "done"
            /\ outcome' = Ok
            /\ infos' = sort(Assemble(ans))
       ELSE UNCHANGED <<pc, outcome, infos>>

\* allBranches = [...localBranches, ...remoteBranches]; the second
\* Promise.all: every callback runs up to its await
StartCounts(q, all) ==
    LET asked == Asked(all, answers.baseBranch)
        order == SelectSeq([i \in 1..Len(all) |-> i], LAMBDA i : i \in asked)
        ans   == [answers EXCEPT !.allBranches = all,
                                 !.counts = [i \in 1..Len(all) |-> Zero]]
    IN  /\ cmds' = cmds \o [k \in 1..Len(order) |-> Cmd(CountCommand, all[order[k]].ref)]
        /\ inflight' = (inflight \ {q}) \cup
               {Query(q.id, CountCommand, all[i].ref, i) : i \in asked}
        /\ IF asked = {}
           THEN Counted(ans)
           ELSE /\ pc' = "all2"
                /\ answers' = ans
                /\ UNCHANGED <<outcome, infos>>

\* listBranches("refs/heads/", "local") has completed
ListLocalDone ==
    /\ pc = "list_local"
    /\ \E q \in inflight :
         /\ q.id = ncalls
         /\ q.c = "for-each-ref refs/heads/"
         /\ LET localBranches == listBranches(ForEachRef(RefsHeads, listing.local), "local")
            IN  IF q.c \in listing.broken THEN Reject(q)
                ELSE IF call.flag
                THEN /\ pc' = "list_remote"
                     /\ answers' = [answers EXCEPT !.localBranches = localBranches]
                     /\ cmds' = Append(cmds, Cmd("for-each-ref refs/remotes/", NoRef))
                     /\ inflight' = (inflight \ {q})
                            \cup {Query(q.id, "for-each-ref refs/remotes/", NoRef, 0)}
                     /\ UNCHANGED <<outcome, infos>>
                ELSE StartCounts(q, localBranches)
    /\ InventoryFrame

\* listBranches("refs/remotes/", "remote") has completed
ListRemoteDone ==
    /\ pc = "list_remote"
    /\ \E q \in inflight :
         /\ q.id = ncalls
         /\ q.c = "for-each-ref refs/remotes/"
         /\ LET remoteBranches ==
                    listBranches(ForEachRef(RefsRemotes, listing.remote), "remote")
            IN  IF q.c \in listing.broken THEN Reject(q)
                ELSE StartCounts(q, answers.localBranches \o remoteBranches)
    /\ InventoryFrame

\* } catch { return { ahead: 0, behind: 0 }; }
CountCatchRethrows(q, ans) == Reject(q)
CountCatch(q, ans) ==
    /\ inflight' = inflight \ {q}
    /\ UNCHANGED cmds
    /\ Counted(ans)

\* getAheadBehind(branch.ref, baseBranch): git rev-list --left-right --count
\* has completed, or has failed
CountDone ==
    /\ \E q \in inflight :
         /\ q.c = CountCommand
         /\ LET branch == BranchOf(answers.allBranches[q.i])
                settled(counts) == [answers EXCEPT !.counts[q.i] = counts,
                                        !.counted = @ \cup {q.i}]
            IN  IF ~(q.id = ncalls /\ pc = "all2") THEN Dropped(q)
                ELSE IF branch.broken THEN CountCatch(q, settled(Zero))
                ELSE /\ inflight' = inflight \ {q}
                     /\ UNCHANGED cmds
                     /\ Counted(settled(parseCounts(RevListCount(branch))))
    /\ InventoryFrame

\* ---- the operations that change the repository, as the commands they await
\* the commands one call of an operation issues, in order, when none of
\* them throws past the operation's own catch blocks
Scripts ==
    {[op |-> "deleteLocalBranch", path |-> <<"branch -d">>],
     [op |-> "deleteLocalBranch", path |-> <<"branch -D">>],
     [op |-> "deleteRemoteBranch", path |-> <<"push --delete">>],
     [op |-> "setupCherryPick", path |-> <<"show-ref", "checkout -b">>],
     [op |-> "cherryPick", path |-> <<"cherry-pick">>],
     [op |-> "resolveConflictWithStrategy", path |-> <<"checkout --ours .", "add .">>],
     [op |-> "finishCherryPick", path |-> <<"checkout", "reset --hard">>],
     [op |-> "finishCherryPick",
      path |-> <<"checkout", "rev-parse", "tag", "reset --hard">>],
     [op |-> "cleanupCherryPick", path |-> <<"status", "branch -D">>],
     [op |-> "cleanupCherryPick", path |-> <<"status", "checkout", "branch -D">>],
     [op |-> "performLinearRebase",
      path |-> <<"fetch --all", "show-ref", "checkout", "show-ref", "rebase">>],
     [op |-> "performLinearRebase",
      path |-> <<"fetch --all", "show-ref", "checkout", "show-ref", "rebase -X ours",
                 "checkout --ours .", "add .", "rebase --continue">>],
     [op |-> "performLinearRebase",
      path |-> <<"fetch --all", "show-ref", "checkout", "show-ref", "rebase",
                 "rebase --abort">>],
     [op |-> "pushWithLease", path |-> <<"push --force-with-lease">>]}

\* the commands an operation issues before it awaits: await this.git...
\* issues one
AllAtOnce(path) == Len(path)
AwaitEach(path) == 1

\* an operation that changes the repository is called: it runs up to its
\* first await; the last inventory is no longer the inventory of this
\* repository
Mutate ==
    /\ pc = "idle"
    /\ ncalls < MaxCalls
    /\ \E s \in Scripts :
         LET n == AwaitEach(s.path)
         IN  /\ call' = [op |-> s.op, a |-> NoRef, b |-> NoRef, flag |-> FALSE, cb |-> FALSE]
             /\ cmds' = [i \in 1..n |-> Cmd(s.path[i], NoRef)]
             /\ inflight' = inflight \cup {Query(ncalls + 1, s.path[i], NoRef, i) : i \in 1..n}
             /\ script' = SubSeq(s.path, n + 1, Len(s.path))
    /\ ncalls' = ncalls + 1
    /\ pc' = "awaiting"
    /\ outcome' = NoError
    /\ previous' = NoPrevious
    /\ UNCHANGED <<repo, history, library, listing, answers, infos, progress,
                   caught, resolved, pre>>

\* the awaited command completes: the operation goes on to its next await,
\* returns, or throws
Awaited ==
    /\ pc = "awaiting"
    /\ \E q \in inflight :
         /\ q.id = ncalls
         /\ \/ /\ script # <<>>
               /\ LET n == AwaitEach(script)
                  IN  /\ cmds' = cmds \o [i \in 1..n |-> Cmd(script[i], NoRef)]
                      /\ inflight' = (inflight \ {q}) \cup
                             {Query(q.id, script[i], NoRef, Len(cmds) + i) : i \in 1..n}
                      /\ script' = SubSeq(script, n + 1, Len(script))
               /\ UNCHANGED <<pc, outcome>>
            \/ /\ pc' = "done"
               /\ \/ script = <<>> /\ outcome' = Ok
                  \/ outcome' = GitError(q.c)
               /\ script' = <<>>
               /\ inflight' = inflight \ {q}
               /\ UNCHANGED cmds
    /\ UNCHANGED <<repo, history, library, listing, answers, infos, previous, progress,
                   caught, resolved, pre, call, ncalls>>

\* the caller takes what the call returned or threw
ReturnInventory ==
    /\ pc = "done"
    /\ pc' = "idle"
    /\ previous' = IF call.op = "getBranchInfos" /\ outcome = Ok
                   THEN [valid |-> TRUE, includeRemote |-> call.flag, infos |-> infos]
                   ELSE previous
    /\ call' = NoCall
    /\ outcome' = NoError
    /\ cmds' = <<>>
    /\ answers' = NoAnswers
    /\ infos' = <<>>
    /\ UNCHANGED <<repo, history, library, listing, inflight, script, progress, caught,
                   resolved, pre, ncalls>>

NextInventory ==
    \/ \E includeRemote \in BOOLEAN : GetBranchInfos(includeRemote)
    \/ MergedSetDone("local")
    \/ MergedSetDone("remote")
    \/ BaseRemoteDone
    \/ BaseLocalDone
    \/ ListLocalDone
    \/ ListRemoteDone
    \/ CountDone
    \/ Mutate
    \/ Awaited
    \/ ReturnInventory

\* ------------------------------------------- library functions on their own
\* a function of the library is followed from its call to its return; the
\* repository takes no part
InitNoRepository ==
    /\ tips = [b \in RefNames |-> NoCommit]
    /\ remotes = [b \in RemoteNames |-> NoCommit]
    /\ head = Main
    /\ tags = {}
    /\ inProgress = "none"
    /\ InitProcess
    /\ graph = RootGraph
    /\ InitSessionIdle
    /\ listing = NoListing

LibraryFrame ==
    UNCHANGED <<repo, history, inventory, pc, call, cmds, progress, outcome,
                caught, resolved, pre, ncalls>>

ReturnedValue(v) == [kind |-> "returned", v |-> v]

\* ---- listBranches(refPrefix, type)
\* the refs git for-each-ref may list below refs/heads/ and below
\* refs/remotes/: a branch may be named HEAD (git update-ref makes one), a
\* remote-tracking ref may have one segment (git svn makes them)
ListedHeads   == {main, HEAD, Feature, <<"f", "/">> \o HEAD}
ListedRemotes == {OriginRef(main), OriginRef(HEAD), OriginRef(Feature), <<"o">>}

\* a ref as for-each-ref prints it
ListedRef(short, date, sha, subject) ==
    [short |-> short, date |-> date, sha |-> sha, subject |-> subject]

ListerOutputs(prefix, names) ==
    {ForEachRef(prefix, <<ListedRef(n, date, sha, subject)>>) :
        n \in names, date \in DateTexts,
        sha \in {<<>>, <<"sha">>}, subject \in {<<>>, <<"subject">>}}

InitLister ==
    /\ InitNoRepository
    /\ files = NoFiles
    /\ frame \in {[op |-> "listBranches", type |-> "local", output |-> o] :
                     o \in ListerOutputs(RefsHeads, ListedHeads)}
              \cup {[op |-> "listBranches", type |-> "remote", output |-> o] :
                     o \in ListerOutputs(RefsRemotes, ListedRemotes)}
    /\ value = NoValue

\* listBranches returns the records of the lines git printed
ListBranches ==
    /\ frame.op = "listBranches"
    /\ value = NoValue
    /\ value' = ReturnedValue(listBranches(frame.output, frame.type))
    /\ UNCHANGED <<files, frame>>
    /\ LibraryFrame

NextLister == ListBranches

\* ---- isValidBranchName(name)
MaxNameLen == 3    \* characters of a name made of any characters

\* the characters names are made of: safe ones, and "@", "#", " ", ":" and
\* the null byte
NameChars == {"m", "A", "1", "-", "_", ".", "/", "@", "#", " ", ":", NUL}

DotLock == <<".", "l", "o", "c", "k">>

RECURSIVE Strings(_, _)
Strings(chars, n) ==
    IF n = 0 THEN {<<>>}
    ELSE LET shorter == Strings(chars, n - 1)
         IN  shorter \cup {Append(w, ch) : w \in shorter, ch \in chars}

\* names with .lock in them, at the end of a segment and elsewhere
LockNames ==
    {before \o DotLock \o after :
        before \in {<<"m">>, <<"m", "/", "m">>, <<"m", "/">>},
        after  \in {<<>>, <<"/", "m">>, <<"m">>, <<"-", "1">>}}

InitNames ==
    /\ InitNoRepository
    /\ files = NoFiles
    /\ frame \in {[op |-> "isValidBranchName", name |-> n] :
                     n \in Strings(NameChars, MaxNameLen) \cup LockNames}
    /\ value = NoValue

\* isValidBranchName returns
IsValidBranchName ==
    /\ frame.op = "isValidBranchName"
    /\ value = NoValue
    /\ value' = ReturnedValue(isValidBranchName(frame.name))
    /\ UNCHANGED <<files, frame>>
    /\ LibraryFrame

NextNames == IsValidBranchName

\* ---- performLinearRebase without and with a progressCallback
\* one call without progressCallback, then the same call with one, on the
\* same repository and with git behaving the same way
Messages ==
    {"Fetching all branches...", "Checking if target branch exists...",
     "Starting linear rebase...", "Linear rebase completed successfully",
     "Conflicts detected, auto-resolving and continuing...",
     "Linear rebase completed with conflicts auto-resolved"}

\* the commands git may fail; a rebase fails outright or stops on a conflict
GitCommands ==
    {"fetch --all", "show-ref", "checkout", "rebase", "rebase (conflict)",
     "checkout --ours .", "add .", "rebase --continue", "rebase --abort"}

NoRun == [done |-> FALSE, a |-> NoRef, b |-> NoRef, flag |-> FALSE,
          cmds |-> <<>>, outcome |-> NoError]

\* the callbacks: one that returns whatever it is told, and those that
\* throw on one of the messages
InitCallback ==
    /\ tips \in [RefNames -> {NoCommit, 1, 2}]
    /\ tips[Main] \in {NoCommit, 1}
    /\ tips[Feature] = 2
    /\ tips[TempBranchName] = NoCommit
    /\ remotes \in [RemoteNames -> {NoCommit, 1}]
    /\ remotes[Feature] = NoCommit
    /\ head \in {b \in RefNames : tips[b] # NoCommit}
    /\ tags = {}
    /\ inProgress = "none"
    /\ InitProcess
    /\ graph = RootGraph
    /\ InitSessionIdle
    /\ listing = NoListing
    /\ files = NoFiles
    /\ value = NoValue
    /\ frame \in {[op |-> "progressCallback", throws |-> T, fails |-> F, first |-> NoRun] :
                     T \in {{}} \cup {{m} : m \in Messages},
                     F \in Subsets(GitCommands, 1)}

\* performLinearRebase(current, target, undefined, {continueOnConflict})
WithoutCallback ==
    /\ ~Free
    /\ ncalls = 0
    /\ \E a \in CurrentArgs, b \in TargetArgs, continueOnConflict \in BOOLEAN :
          PerformLinearRebase(a, b, FALSE, continueOnConflict)

\* the call has ended: what it issued and how it ended is kept, and the
\* repository is taken back to where it was when the call started
TakeFirst ==
    /\ ~Free
    /\ pc = "done"
    /\ ~frame.first.done
    /\ frame' = [frame EXCEPT !.first = [done |-> TRUE, a |-> call.a, b |-> call.b,
                                         flag |-> call.flag, cmds |-> cmds,
                                         outcome |-> outcome]]
    /\ tips' = pre.tips
    /\ remotes' = pre.remotes
    /\ head' = pre.head
    /\ tags' = pre.tags
    /\ inProgress' = pre.inProgress
    /\ pc' = "idle"
    /\ call' = NoCall
    /\ cmds' = <<>>
    /\ progress' = <<>>
    /\ outcome' = NoError
    /\ caught' = NoError
    /\ resolved' = NoRef
    /\ UNCHANGED <<pre, ncalls, history, inventory, files, value>>

\* performLinearRebase(current, target, progressCallback, {continueOnConflict})
WithCallback ==
    /\ ~Free
    /\ frame.first.done
    /\ ncalls = 1
    /\ PerformLinearRebase(frame.first.a, frame.first.b, TRUE, frame.first.flag)

NextCallback ==
    \/ WithoutCallback
    \/ TakeFirst
    \/ WithCallback
    \/ LinFetch
    \/ LinExistsRemote
    \/ LinExistsLocal
    \/ LinCheckout
    \/ LinResolve
    \/ LinRebase
    \/ LinOurs
    \/ LinAdd
    \/ LinContinue
    \/ LinAbort

\* ---- lib/config: findUp, readConfigFile, loadConfig
MaxProbes == 4     \* fs.access calls of one findUp before the model stops

\* a path is the sequence of its segments; "/" is <<>>
Root == <<>>
dirname(path) == IF path = Root THEN Root ELSE SubSeq(path, 1, Len(path) - 1)
join(dir, name) == Append(dir, name)

Directories ==
    {Root, <<"home">>, <<"home", "u">>, <<"home", "u", "p">>, <<"tmp">>, <<"tmp", "w">>}
\* os.homedir()
HomeDirs == {<<"home", "u">>, <<"root">>}

\* options.localConfigFile, and options.toolName with options.configFile
LocalConfigFile == ".rc"
\* join(homedir(), ".config", toolName, configFile)
GlobalConfigPath(home) == join(join(join(home, ".config"), "tool"), "config.json")

\* a config object gives every key its value, Missing for a key it does
\* not have
Keys == {"a", "b", "c"}
Missing == "undefined"
Object(a, b, c) == [k \in Keys |-> IF k = "a" THEN a ELSE IF k = "b" THEN b ELSE c]
NoKeys == Object(Missing, Missing, Missing)
defaultConfig == Object("1", "2", Missing)
hasOwn(object, k) == object[k] # Missing

\* what is at a path: nothing, a file that cannot be read, or a file with
\* its text: not JSON, the JSON text null, or the JSON text of an object
Absent  == [kind |-> "absent", object |-> NoKeys]
Denied  == [kind |-> "denied", object |-> NoKeys]
Invalid == [kind |-> "invalid", object |-> NoKeys]
JsonNull == [kind |-> "null", object |-> NoKeys]
Json(object) == [kind |-> "object", object |-> object]

LocalContents ==
    {Denied, Invalid, JsonNull, Json(NoKeys), Json(Object("3", Missing, Missing)),
     Json(Object(Missing, "1", "3"))}
GlobalContents ==
    {Absent, Denied, Invalid, JsonNull, Json(Object("1", Missing, "3")),
     Json(Object(Missing, "3", Missing))}

\* the file systems: a home directory, a global config file, and the local
\* config file in at most two directories
FileSystems ==
    {[home |-> home, global |-> global, local |-> local] :
        home \in HomeDirs, global \in GlobalContents,
        local \in {[d \in Directories |-> Absent]}
            \cup {[d \in Directories |-> IF d = at THEN content ELSE Absent] :
                    at \in Directories, content \in LocalContents}
            \cup {[d \in Directories |->
                      IF d = near THEN Json(Object("3", Missing, Missing))
                      ELSE IF d = far THEN Json(Object(Missing, "1", "3")) ELSE Absent] :
                    near \in Directories, far \in Directories}}

\* what is at the path
At(path) ==
    IF path = GlobalConfigPath(files.home) THEN files.global
    ELSE IF path # Root /\ path[Len(path)] = LocalConfigFile
            /\ dirname(path) \in Directories
         THEN files.local[dirname(path)]
         ELSE Absent

\* what a library function returns or throws
Null == [kind |-> "null"]
Threw(msg) == [kind |-> "threw", msg |-> msg]

\* the validators: a cast (c) => c as T, one that throws on what is not a
\* config object, and one that throws a file-not-found error of its own
Validators == {"cast", "strict", "schema"}

Running(op, at, start, dir, path, validate) ==
    [op |-> op, at |-> at, start |-> start, dir |-> dir, probes |-> 0,
     path |-> path, validate |-> validate, globalConfig |-> Null]

InitConfig ==
    /\ InitNoRepository
    /\ files \in FileSystems
    /\ frame = NoFrame
    /\ value = NoValue

\* the error has a code and the code is "ENOENT"
IsENOENT(error) == error.kind = "ENOENT"

\* validate(JSON.parse(content)), what it returns or throws
Validate(validate, content) ==
    IF content.kind = "invalid" THEN [kind |-> "SyntaxError"]
    ELSE IF validate = "schema" THEN [kind |-> "ENOENT"]
    ELSE IF validate = "strict" /\ content.kind = "null" THEN [kind |-> "Error"]
    ELSE IF content.kind = "null" THEN Null
    ELSE ReturnedValue(content.object)

\* catch (error): null for ENOENT, else the error is thrown on
ReadCatch(error) ==
    IF IsENOENT(error) THEN Null
    ELSE Threw("Error reading or parsing config file")

\* readConfigFile(filePath, validate)
readConfigFile(filePath, validate) ==
    LET content == At(filePath)
        result  == IF content.kind = "absent" THEN [kind |-> "ENOENT"]
                   ELSE IF content.kind = "denied" THEN [kind |-> "EACCES"]
                   ELSE Validate(validate, content)
    IN  IF result.kind \in {"returned", "null"} THEN result ELSE ReadCatch(result)

\* { ...target, ...source }
Spread(target, source) ==
    [k \in Keys |-> IF hasOwn(source, k) THEN source[k] ELSE target[k]]

\* globalConfig || {}
OrEmpty(config) == IF config.kind = "returned" THEN config.v ELSE NoKeys

\* the sources loadConfig gives the keys of config: "none" for a key that
\* config does not have or that gets no source
GlobalOverLocal(config, globalConfig, localConfig) ==
    [k \in Keys |->
        IF ~hasOwn(config, k) THEN "none"
        ELSE IF hasOwn(OrEmpty(globalConfig), k) THEN "global"
        ELSE IF hasOwn(OrEmpty(localConfig), k) THEN "local"
        ELSE IF hasOwn(defaultConfig, k) THEN "default"
        ELSE "none"]
Sources(config, globalConfig, localConfig) ==
    [k \in Keys |->
        IF ~hasOwn(config, k) THEN "none"
        ELSE IF hasOwn(OrEmpty(localConfig), k) THEN "local"
        ELSE IF hasOwn(OrEmpty(globalConfig), k) THEN "global"
        ELSE IF hasOwn(defaultConfig, k) THEN "default"
        ELSE "none"]

\* the { config, sources } loadConfig returns
Merge(globalConfig, localConfig) ==
    LET config == Spread(Spread(defaultConfig, OrEmpty(globalConfig)), OrEmpty(localConfig))
    IN  ReturnedValue([config |-> config,
                       sources |-> Sources(config, globalConfig, localConfig)])

\* findUp(name, startDir) is called: dir = resolve(startDir)
CallFindUp ==
    /\ frame = NoFrame
    /\ files # NoFiles
    /\ \E startDir \in Directories :
          frame' = Running("findUp", "findUp", startDir, startDir, Root, "cast")
    /\ UNCHANGED <<files, value>>
    /\ LibraryFrame

\* readConfigFile(filePath, validate) is called
CallReadConfigFile ==
    /\ frame = NoFrame
    /\ files # NoFiles
    /\ \E dir \in {<<"home", "u", "p">>, <<"tmp", "w">>}, validate \in Validators :
          frame' = Running("readConfigFile", "read", Root, Root,
                           join(dir, LocalConfigFile), validate)
    /\ UNCHANGED <<files, value>>
    /\ LibraryFrame

\* loadConfig(options, cwd) is called: it awaits readConfigFile(globalConfigPath)
CallLoadConfig ==
    /\ frame = NoFrame
    /\ files # NoFiles
    /\ \E cwd \in Directories, validate \in Validators :
          frame' = Running("loadConfig", "readGlobal", cwd, cwd,
                           GlobalConfigPath(files.home), validate)
    /\ UNCHANGED <<files, value>>
    /\ LibraryFrame

\* await fs.readFile(filePath) of a readConfigFile called on its own
ReadConfigFile ==
    /\ frame.op = "readConfigFile"
    /\ value = NoValue
    /\ value' = readConfigFile(frame.path, frame.validate)
    /\ UNCHANGED <<files, frame>>
    /\ LibraryFrame

\* loadConfig: readConfigFile(globalConfigPath, validate) has settled; an
\* error is thrown on, else findUp(localConfigFile, cwd) is called
ReadGlobal ==
    /\ frame.op = "loadConfig"
    /\ frame.at = "readGlobal"
    /\ value = NoValue
    /\ LET globalConfig == readConfigFile(frame.path, frame.validate)
       IN  IF globalConfig.kind = "threw"
           THEN value' = globalConfig /\ UNCHANGED frame
           ELSE /\ frame' = [frame EXCEPT !.globalConfig = globalConfig, !.at = "findUp"]
                /\ UNCHANGED value
    /\ UNCHANGED files
    /\ LibraryFrame

\* what the caller of findUp does with its result: findUp called on its own
\* returns it; loadConfig reads the file found, or merges without one
FoundLocal(localConfigPath) ==
    IF frame.op = "findUp"
    THEN value' = localConfigPath /\ UNCHANGED frame
    ELSE IF localConfigPath = Null
    THEN value' = Merge(frame.globalConfig, Null) /\ UNCHANGED frame
    ELSE /\ frame' = [frame EXCEPT !.at = "readLocal", !.path = localConfigPath.v]
         /\ UNCHANGED value

\* while (dir !== stopDir): what ends the loop
StopsAt(dir, stopDir) == dir = stopDir

\* findUp: one turn of while (dir !== stopDir) { await fs.access(...) }
FindUp ==
    /\ frame.op \in {"findUp", "loadConfig"}
    /\ frame.at = "findUp"
    /\ value = NoValue
    /\ frame.probes < MaxProbes
    /\ LET stopDir  == dirname(files.home)
           filePath == join(frame.dir, LocalConfigFile)
       IN  IF StopsAt(frame.dir, stopDir) THEN FoundLocal(Null)
           ELSE IF At(filePath).kind # "absent" THEN FoundLocal(ReturnedValue(filePath))
           ELSE /\ frame' = [frame EXCEPT !.dir = dirname(frame.dir), !.probes = @ + 1]
                /\ UNCHANGED value
    /\ UNCHANGED files
    /\ LibraryFrame

\* loadConfig: readConfigFile(localConfigPath, validate) has settled; the
\* layers are merged and returned
ReadLocal ==
    /\ frame.op = "loadConfig"
    /\ frame.at = "readLocal"
    /\ value = NoValue
    /\ LET localConfig == readConfigFile(frame.path, frame.validate)
       IN  value' = IF localConfig.kind = "threw" THEN localConfig
                    ELSE Merge(frame.globalConfig, localConfig)
    /\ UNCHANGED <<files, frame>>
    /\ LibraryFrame

NextConfig ==
    \/ CallFindUp
    \/ CallReadConfigFile
    \/ CallLoadConfig
    \/ ReadConfigFile
    \/ ReadGlobal
    \/ FindUp
    \/ ReadLocal

\* ---- startAutostash, popStash
MaxStash == 2      \* stash entries left by earlier calls

\* process.pid in digits, and `agrb-${process.pid}`
Pids == {<<"1">>, <<"1", "2">>}
StashLabel(pid) == <<"agrb-">> \o pid

\* %gs of an entry made by stash push -m <label> on branch m, and of one
\* made by a plain git stash
OnBranch(label) == <<"On", " ", "m", ":", " ">> \o label
WipOnBranch == <<"WIP", " ", "on", " ", "m", ":", " ", "1", " ", "s">>

\* the entries earlier calls and the user may have left
EarlierEntries ==
    {[subject |-> OnBranch(StashLabel(pid)), by |-> "earlier"] : pid \in Pids}
        \cup {[subject |-> WipOnBranch, by |-> "user"]}
RECURSIVE Stashes(_)
Stashes(n) ==
    IF n = 0 THEN {<<>>}
    ELSE Stashes(n - 1) \cup
         {<<e>> \o st : e \in EarlierEntries, st \in Stashes(n - 1)}

InitStash ==
    /\ InitNoRepository
    /\ files \in {[stash |-> st, dirty |-> d, restored |-> "none"] :
                    st \in Stashes(MaxStash), d \in BOOLEAN}
    /\ frame = NoFrame
    /\ value = NoValue

\* %gd of the i-th entry, the newest first
StashRef(i) == <<"stash@{", ToString(i - 1), "}">>

\* git stash list --format=%gd %gs
RECURSIVE StashListFrom(_, _)
StashListFrom(stash, i) ==
    IF i > Len(stash) THEN <<>>
    ELSE StashRef(i) \o <<" ">> \o stash[i].subject \o <<"\n">>
            \o StashListFrom(stash, i + 1)
StashList(stash) == StashListFrom(stash, 1)

\* .find((l) => l.includes(label)): the first line that has the label in it
FindsLabel(l, label) == Contains(l, label)

\* list.split("\n").map((l) => l.trim()).find(...); null without such a
\* line, else line.split(" ")[0] || null
ParseStashList(list, label) ==
    LET split == Split(list, "\n")
        lines == [i \in 1..Len(split) |-> trim(split[i])]
        found == {i \in 1..Len(lines) : FindsLabel(lines[i], label)}
    IN  IF found = {} THEN Null
        ELSE LET line == lines[CHOOSE i \in found : \A j \in found : i <= j]
                 ref  == Split(line, " ")[1]
             IN  IF ref = <<>> THEN Null ELSE ReturnedValue(ref)

\* startAutostash() is called in a process
StartAutostash ==
    /\ frame = NoFrame
    /\ \E pid \in Pids :
          frame' = [op |-> "startAutostash", pid |-> pid, at |-> "push", created |-> FALSE]
    /\ UNCHANGED <<files, value>>
    /\ LibraryFrame

\* await this.git.raw(["stash", "push", "-u", "-m", label]): with local
\* changes an entry is made; without, git says so and exits with 0
StashPush ==
    /\ frame.op = "startAutostash"
    /\ frame.at = "push"
    /\ \/ /\ files.dirty
          /\ files' = [files EXCEPT
                          !.stash = <<[subject |-> OnBranch(StashLabel(frame.pid)),
                                       by |-> "call"]>> \o @,
                          !.dirty = FALSE]
          /\ frame' = [frame EXCEPT !.at = "list", !.created = TRUE]
          /\ UNCHANGED value
       \/ /\ ~files.dirty
          /\ frame' = [frame EXCEPT !.at = "list"]
          /\ UNCHANGED <<files, value>>
       \/ /\ value' = Threw("stash push")
          /\ frame' = [frame EXCEPT !.at = "thrown"]
          /\ UNCHANGED files
    /\ LibraryFrame

\* await this.git.raw(["stash", "list", "--format=%gd %gs"]), and what is
\* made of the list
StashListed ==
    /\ frame.op = "startAutostash"
    /\ frame.at = "list"
    /\ \/ /\ value' = ParseStashList(StashList(files.stash), StashLabel(frame.pid))
          /\ frame' = [frame EXCEPT !.at = "returned"]
       \/ /\ value' = Threw("stash list")
          /\ frame' = [frame EXCEPT !.at = "thrown"]
    /\ UNCHANGED files
    /\ LibraryFrame

\* popStash(stashRef) with the reference startAutostash has returned:
\* git stash pop <stashRef> restores the entry and drops it
PopStash ==
    /\ frame.op = "startAutostash"
    /\ frame.at = "returned"
    /\ value.kind = "returned"
    /\ \E i \in 1..Len(files.stash) :
          /\ StashRef(i) = value.v
          /\ files' = [files EXCEPT
                          !.stash = SubSeq(@, 1, i - 1) \o SubSeq(@, i + 1, Len(@)),
                          !.dirty = TRUE,
                          !.restored = files.stash[i].by]
    /\ frame' = [frame EXCEPT !.at = "popped"]
    /\ UNCHANGED value
    /\ LibraryFrame

NextStash ==
    \/ StartAutostash
    \/ StashPush
    \/ StashListed
    \/ PopStash

\* ---- components/ConfigEditor: the hook state is in frame, what writeConfig
\* was given in files, the end of the app in value; frame.event is the
\* event the component has handled last
MaxInput == 2      \* characters of the input buffer

\* the values of a config key: the key is not there, it is there with
\* undefined, a number, a boolean
NotSet == [type |-> "absent"]
Undefined == [type |-> "undefined"]
Num(n) == [type |-> "number", v |-> n]
Bool(b) == [type |-> "boolean", v |-> b]
NaN == [type |-> "NaN"]

\* configItems: a number item and a boolean item
ItemKeys == {"n", "b"}
ItemType == [k \in ItemKeys |-> IF k = "n" THEN "number" ELSE "boolean"]
NoItem == "null"
EditorConfig(n, b) == [k \in ItemKeys |-> IF k = "n" THEN n ELSE b]

\* props.defaultConfig, and what props.loadConfig() may resolve to
EditorDefault == EditorConfig(NotSet, Bool(FALSE))
LoadedConfigs ==
    {EditorConfig(NotSet, NotSet), EditorConfig(Num(1), NotSet),
     EditorConfig(Num(0), Bool(TRUE))}

\* what the keyboard sends
InputChars == {"0", "1", "-", "a", " "}
DigitValue(ch) == IF ch = "1" THEN 1 ELSE 0
NoInputError == "null"
NumberError == "Please enter an integer >= 0"
NothingWritten == [type |-> "none"]
Exited == [kind |-> "exited"]

InitEditor ==
    /\ InitNoRepository
    /\ files = [written |-> NothingWritten, calls |-> 0]
    /\ frame = [op |-> "ConfigEditor", status |-> "loading",
                config |-> EditorDefault, initialConfig |-> EditorDefault,
                editingItem |-> NoItem, inputBuffer |-> <<>>,
                inputError |-> NoInputError, event |-> "none"]
    /\ value = NoValue

Editor == frame.op = "ConfigEditor" /\ value = NoValue

\* { ...defaultConfig, ...loadedConfig }
SpreadOver(target, source) ==
    [k \in ItemKeys |-> IF source[k] # NotSet THEN source[k] ELSE target[k]]

\* JSON.parse(JSON.stringify(fullConfig)): a key with undefined is dropped
JsonCopy(config) ==
    [k \in ItemKeys |-> IF config[k] = Undefined THEN NotSet ELSE config[k]]

\* isDeepEqual(a, b) of two configs
isDeepEqual(a, b) == a = b

\* isDirty: config and initialConfig are set and not deep-equal
NeverDirty(f) == FALSE
isDirty(f) == f.status # "loading" /\ ~isDeepEqual(f.config, f.initialConfig)

\* String(value) of a number >= 0
RECURSIVE NumberText(_)
NumberText(n) ==
    IF n < 10 THEN <<ToString(n)>> ELSE NumberText(n \div 10) \o <<ToString(n % 10)>>

\* Number.parseInt(text, 10): an optional sign, then the digits up to the
\* first character that is none; NaN without a digit
RECURSIVE DigitsValue(_, _)
DigitsValue(text, acc) ==
    IF text = <<>> \/ Head(text) \notin {"0", "1"} THEN acc
    ELSE DigitsValue(Tail(text), 10 * acc + DigitValue(Head(text)))
parseInt(text) ==
    LET t      == trim(text)
        signed == t # <<>> /\ Head(t) = "-"
        digits == IF signed THEN Tail(t) ELSE t
    IN  IF digits = <<>> \/ Head(digits) \notin {"0", "1"} THEN NaN
        ELSE Num((IF signed THEN -1 ELSE 1) * DigitsValue(digits, 0))

\* useEffect: loadConfig() has resolved
Loaded ==
    /\ Editor
    /\ frame.status = "loading"
    /\ \E loadedConfig \in LoadedConfigs :
          LET fullConfig == SpreadOver(EditorDefault, loadedConfig)
          IN  frame' = [frame EXCEPT !.config = fullConfig,
                                     !.initialConfig = JsonCopy(fullConfig),
                                     !.status = "selecting",
                                     !.event = "loaded"]
    /\ UNCHANGED <<files, value>>
    /\ LibraryFrame

\* useInput while selecting: q
PressQ ==
    /\ Editor
    /\ frame.status = "selecting"
    /\ IF isDirty(frame)
       THEN /\ frame' = [frame EXCEPT !.status = "confirm_quit", !.event = "q"]
            /\ UNCHANGED value
       ELSE /\ frame' = [frame EXCEPT !.event = "q"]
            /\ value' = Exited
    /\ UNCHANGED files
    /\ LibraryFrame

\* useInput while selecting: s, handleSave up to await writeConfig(config)
handleSave ==
    /\ Editor
    /\ frame.status = "selecting"
    /\ frame' = [frame EXCEPT !.status = "saving", !.event = "s"]
    /\ files' = [files EXCEPT !.calls = @ + 1]
    /\ UNCHANGED value
    /\ LibraryFrame

\* handleSave: writeConfig(config) has resolved
Saved ==
    /\ Editor
    /\ frame.status = "saving"
    /\ files' = [files EXCEPT !.written = frame.config]
    /\ frame' = [frame EXCEPT !.status = "done", !.event = "saved"]
    /\ value' = Exited
    /\ LibraryFrame

\* handleSelect(selected)
handleSelect ==
    /\ Editor
    /\ frame.status = "selecting"
    /\ \E key \in ItemKeys :
          LET v == frame.config[key]
          IN  frame' = [frame EXCEPT
                  !.editingItem = key,
                  !.status = "editing",
                  !.inputBuffer = IF ItemType[key] = "number"
                                  THEN (IF v.type = "number" THEN NumberText(v.v) ELSE <<>>)
                                  ELSE @,
                  !.inputError = NoInputError,
                  !.event = "select"]
    /\ UNCHANGED <<files, value>>
    /\ LibraryFrame

\* cancelEditing()
cancelKeepsInput(f) == [f EXCEPT !.editingItem = NoItem, !.status = "selecting"]
cancelEditing(f) ==
    [f EXCEPT !.editingItem = NoItem, !.inputBuffer = <<>>,
              !.inputError = NoInputError, !.status = "selecting"]

\* the test of the parsed number: Number.isNaN(parsed) || parsed < 0
NotANumber(parsed) == parsed = NaN
NotNatural(parsed) == IF parsed = NaN THEN TRUE ELSE parsed.v < 0

\* commitEditing() of a number item
commitEditing(f) ==
    LET valueText == trim(f.inputBuffer)
        parsed    == parseInt(valueText)
    IN  IF valueText = <<>>
        THEN cancelEditing([f EXCEPT !.config[f.editingItem] = Undefined])
        ELSE IF NotNatural(parsed) THEN [f EXCEPT !.inputError = NumberError]
        ELSE cancelEditing([f EXCEPT !.config[f.editingItem] = parsed])

TextItem == frame.editingItem # NoItem /\ ItemType[frame.editingItem] = "number"
Editing == Editor /\ frame.status = "editing" /\ frame.editingItem # NoItem

\* useInput while editing: Escape
EscapeKey ==
    /\ Editing
    /\ frame' = cancelEditing([frame EXCEPT !.event = "escape"])
    /\ UNCHANGED <<files, value>>
    /\ LibraryFrame

\* useInput while editing: Return
ReturnKey ==
    /\ Editing
    /\ TextItem
    /\ frame' = commitEditing([frame EXCEPT !.event = "return"])
    /\ UNCHANGED <<files, value>>
    /\ LibraryFrame

\* useInput while editing: Backspace or Delete
BackspaceKey ==
    /\ Editing
    /\ TextItem
    /\ frame' = [frame EXCEPT
                    !.inputBuffer = SubSeq(@, 1, IF @ = <<>> THEN 0 ELSE Len(@) - 1),
                    !.event = "backspace"]
    /\ UNCHANGED <<files, value>>
    /\ LibraryFrame

\* useInput while editing: a character
TypeKey ==
    /\ Editing
    /\ TextItem
    /\ Len(frame.inputBuffer) < MaxInput
    /\ \E input \in InputChars :
          frame' = [frame EXCEPT !.inputBuffer = Append(@, input), !.event = "input"]
    /\ UNCHANGED <<files, value>>
    /\ LibraryFrame

\* handleBooleanChange(item)
handleBooleanChange ==
    /\ Editing
    /\ ItemType[frame.editingItem] = "boolean"
    /\ \E b \in BOOLEAN :
          frame' = cancelEditing([frame EXCEPT !.config[frame.editingItem] = Bool(b),
                                               !.event = "boolean"])
    /\ UNCHANGED <<files, value>>
    /\ LibraryFrame

\* handleQuitConfirm(item)
QuitConfirmExits(answer) == TRUE
QuitConfirm(answer) == answer = "yes"
handleQuitConfirm ==
    /\ Editor
    /\ frame.status = "confirm_quit"
    /\ \E answer \in {"yes", "no"} :
          IF QuitConfirm(answer)
          THEN /\ frame' = [frame EXCEPT !.event = answer]
               /\ value' = Exited
          ELSE /\ frame' = [frame EXCEPT !.status = "selecting", !.event = answer]
               /\ UNCHANGED value
    /\ UNCHANGED files
    /\ LibraryFrame

NextEditor ==
    \/ Loaded
    \/ PressQ
    \/ handleSave
    \/ Saved
    \/ handleSelect
    \/ EscapeKey
    \/ ReturnKey
    \/ BackspaceKey
    \/ TypeKey
    \/ handleBooleanChange
    \/ handleQuitConfirm

\* the process goes on after a session was discarded: its next session
\* starts with setupCherryPick(target), which picks temp-rebase-<pid> again
LifeNext ==
    /\ phase \in {"Finalized", "Discarded"}
    /\ SetupCherryPick(Main)

\* sessions one after the other in one process
NextProcess ==
    \/ NextLifecycle
    \/ LifeNext

NextFinish ==
    \/ \E a \in CurrentArgs, f \in BOOLEAN : FinishCherryPick(a, TempBranchName, f)
    \/ FinCheckout
    \/ FinRevParse
    \/ FinTag
    \/ FinReset
    \/ Return

\* the linear strategy and the operations that validate their argument
Next ==
    \/ \E a \in CurrentArgs, b \in TargetArgs, cb \in BOOLEAN, f \in BOOLEAN :
          PerformLinearRebase(a, b, cb, f)
    \/ LinFetch
    \/ LinExistsRemote
    \/ LinExistsLocal
    \/ LinCheckout
    \/ LinResolve
    \/ LinRebase
    \/ LinOurs
    \/ LinAdd
    \/ LinContinue
    \/ LinAbort
    \/ \E b \in ArgNames, f \in BOOLEAN : DeleteLocalBranch(b, f)
    \/ \E b \in ArgNames : DeleteRemoteBranch(b)
    \/ \E b \in ArgNames : BranchExists(b)
    \/ \E b \in ArgNames : SetupCherryPick(b)
    \/ \E a \in ArgNames, b \in ArgNames : GetMergeBase(a, b)
    \/ \E b \in ArgNames : PushWithLease(b)
    \/ \E b \in ArgNames \cup {TempBranchName} : CleanupCherryPick(TempBranchName, b)
    \/ Return

Spec == Init /\ [][Next]_vars
SpecFinish == InitFinish /\ [][NextFinish]_vars
SpecRevList == InitRevList /\ [][NextRevList]_vars
SpecSession == InitSession /\ [][NextSession]_vars
SpecLifecycle == InitLifecycle /\ [][NextLifecycle]_vars
SpecProcess == InitLifecycle /\ [][NextProcess]_vars
SpecInventory == InitInventory /\ [][NextInventory]_vars
SpecLister == InitLister /\ [][NextLister]_vars
SpecNames == InitNames /\ [][NextNames]_vars
SpecCallback == InitCallback /\ [][NextCallback]_vars
SpecConfig == InitConfig /\ [][NextConfig]_vars
SpecStash == InitStash /\ [][NextStash]_vars
SpecEditor == InitEditor /\ [][NextEditor]_vars

\* ---------------------------------------------------------------- properties
PreTip(b) == IF b \in RefNames THEN pre.tips[b] ELSE NoCommit
Issued(c) == \E i \in 1..Len(cmds) : cmds[i].c = c
CountIssued(c) == Cardinality({i \in 1..Len(cmds) : cmds[i].c = c})
LastCmd == cmds[Len(cmds)]
Failed == outcome.kind \notin {"none", "ok"}
InFinish == call.op = "finishCherryPick"
InLinear == call.op = "performLinearRebase"

\* C1: in finishCherryPick with createBackup, for a currentBranch that is a
\* local branch when the call starts: whenever reset --hard has been issued,
\* the tag command was issued before it and a tag created by this call
\* references the tip currentBranch had when the call started.
C1_BackupTagBeforeReset ==
    (InFinish /\ call.flag /\ PreTip(call.a) # NoCommit /\ Issued("reset --hard"))
        => /\ \E i, j \in 1..Len(cmds) :
                 i < j /\ cmds[i].c = "tag" /\ cmds[j].c = "reset --hard"
           /\ \E t \in tags \ pre.tags :
                 t.target = PreTip(call.a) /\ t.name.branch = safeBranch(call.a)

\* C1 witness: a finish with backup has reset the branch to another tip
C1_Witness ==
    /\ InFinish /\ call.flag /\ pc = "done" /\ outcome = Ok
    /\ PreTip(call.a) # NoCommit
    /\ Tip(call.a) # PreTip(call.a)

\* C2: in finishCherryPick with createBackup, when reading the tip or
\* creating the tag fails, the call ends with BackupFailed, reset --hard was
\* never issued, and currentBranch (a local branch when the call starts)
\* still has the tip it had before the call.
C2_BackupFailureLeavesBranch ==
    (/\ InFinish /\ call.flag
     /\ \/ Issued("rev-parse") /\ ~Issued("tag") /\ pc # "fin_tag"
        \/ Issued("tag") /\ tags = pre.tags)
        => /\ pc = "done"
           /\ outcome.kind = "BackupFailed"
           /\ ~Issued("reset --hard")
           /\ (PreTip(call.a) # NoCommit => Tip(call.a) = PreTip(call.a))

\* C2 witness: the tag command failed while the temp branch holds another tip
C2_Witness ==
    /\ InFinish /\ call.flag /\ pc = "done"
    /\ Len(cmds) > 0 /\ LastCmd.c = "tag"
    /\ outcome.kind = "BackupFailed"
    /\ PreTip(call.a) # NoCommit
    /\ Resolve(call.b) # NoCommit /\ Resolve(call.b) # Tip(call.a)

MutatingCommands ==
    {"branch -d", "branch -D", "checkout", "checkout -b", "push --delete",
     "push --force-with-lease", "merge-base", "rebase", "rebase -X ours",
     "reset --hard"}

\* C3: every branch name passed to a mutating subprocess command (branch
\* delete, checkout, push, merge-base, rebase, reset) has passed
\* isValidBranchName.
C3_EveryNameValidated ==
    \A i \in 1..Len(cmds) :
        (cmds[i].c \in MutatingCommands /\ cmds[i].ref # NoRef)
            => isValidBranchName(cmds[i].ref)

ValidatingOps ==
    {"deleteLocalBranch", "deleteRemoteBranch", "branchExists", "setupCherryPick",
     "getMergeBase", "performLinearRebase"}
\* the validated argument(s) of the running call pass the check
ValidatedArgsPass ==
    CASE call.op = "performLinearRebase" -> isValidBranchName(call.b)
      [] call.op = "getMergeBase" -> isValidBranchName(call.a) /\ isValidBranchName(call.b)
      [] OTHER -> isValidBranchName(call.a)

\* C4: when the validated name argument of deleteLocalBranch,
\* deleteRemoteBranch, branchExists, setupCherryPick, getMergeBase or
\* performLinearRebase fails isValidBranchName, the call ends at once with
\* the validation error: no subprocess command was issued, no progress
\* message was sent and the repository is as it was.
C4_InvalidNameRejectedFirst ==
    (call.op \in ValidatingOps /\ ~ValidatedArgsPass)
        => /\ pc = "done"
           /\ outcome = InvalidReference
           /\ cmds = <<>>
           /\ progress = <<>>
           /\ Snapshot = pre

\* C4 witness: deleteLocalBranch("f/../x") was rejected
C4_Witness ==
    /\ call.op = "deleteLocalBranch" /\ call.a = TraversalName
    /\ pc = "done" /\ outcome.kind = "InvalidReference"

\* the target of the running performLinearRebase was looked up after the
\* fetch and exists neither as a remote-tracking ref nor as a local branch
TargetMissing ==
    /\ InLinear /\ isValidBranchName(call.b)
    /\ Len(cmds) >= 3 /\ cmds[3] = Cmd("show-ref", call.b)
    /\ Tip(call.b) = NoCommit /\ RemoteTip(call.b) = NoCommit

\* C5: performLinearRebase with a well-formed target that exists neither
\* remotely nor locally after the fetch ends with TargetNotFound and has
\* issued no checkout command and no rebase command of any kind.
C5_MissingTargetIssuesNothing ==
    (TargetMissing /\ pc = "done")
        => /\ outcome.kind = "TargetNotFound"
           /\ \A i \in 1..Len(cmds) :
                 cmds[i].c \notin {"checkout", "checkout --ours .", "rebase",
                                   "rebase -X ours", "rebase --continue", "rebase --abort"}

\* the message of the failure that sent the running performLinearRebase to
\* its catch block, read off the command before the final rebase --abort:
\* the local show-ref probe stands for the thrown "does not exist" error
FailureMessage(c) ==
    IF c = Cmd("show-ref", call.b) THEN TargetNotFound.msg
    ELSE IF c.c = "rebase -X ours" THEN "rebase" ELSE c.c

\* C6: in performLinearRebase without continueOnConflict, a failure after
\* the validation goes to the abort path and nowhere else; the call then
\* ends having issued rebase --abort exactly once, as its last command,
\* and raises RebaseFailed with the message of the original failure,
\* whether or not the abort itself succeeded.
C6_AbortThenRebaseFailed ==
    (InLinear /\ ~call.flag /\ isValidBranchName(call.b))
        => /\ (caught # NoError => pc \in {"lin_abort", "done"})
           /\ (pc = "done" /\ outcome # Ok)
                 => /\ outcome.kind = "RebaseFailed"
                    /\ CountIssued("rebase --abort") = 1
                    /\ LastCmd.c = "rebase --abort"
                    /\ outcome.msg = FailureMessage(cmds[Len(cmds) - 1])
           /\ (pc = "done" /\ outcome = Ok) => ~Issued("rebase --abort")

\* C6 witness: the rebase stopped on a conflict and the abort failed too
C6_Witness ==
    /\ InLinear /\ ~call.flag /\ pc = "done"
    /\ outcome = RebaseFailed(GitError("rebase"))
    /\ inProgress = "rebase" /\ pre.inProgress = "none"

\* the commands of the running call from the first checkout --ours . on
AutoResolveTail ==
    LET k == CHOOSE i \in 1..Len(cmds) :
                 cmds[i].c = "checkout --ours ." /\ \A j \in 1..(i - 1) : cmds[j].c # "checkout --ours ."
    IN  [i \in 1..(Len(cmds) - k + 1) |-> cmds[k + i - 1].c]

C8_NoPartialApplication ==
    (call.op \in {"setupCherryPick", "finishCherryPick", "performLinearRebase"}
        /\ pc = "done" /\ Failed)
        => \/ Snapshot = pre
           \/ Issued("rebase --abort")
\* ------------------------------------------------- getCommitsToCherryPick
\* the commit a returned line names
CommitOf(line) == CHOOSE c \in 1..MaxNodes : Sha(c) = line
Returned9 == {queue[i] : i \in 1..Len(queue)}
Wanted9 ==
    {c \in Reach(graph, range.to) \ Reach(graph, range.from) : ~IsMerge(graph, c)}

\* C9: getCommitsToCherryPick(from, to) returns exactly the non-merge commits
\* reachable from `to` and not from `from`, each once, and every returned
\* commit comes after all of its returned ancestors
C9_OldestFirstNonMerge ==
    range # NoRange =>
        /\ Returned9 = {Sha(c) : c \in Wanted9}
        /\ \A i, j \in 1..Len(queue) : i # j => queue[i] # queue[j]
        /\ \A i, j \in 1..Len(queue) :
               (/\ i # j
                /\ CommitOf(queue[i]) \in Reach(graph, CommitOf(queue[j])))
               => i < j

\* ------------------------------------------------ the cherry-pick session
IndexOf(line) == CHOOSE i \in 1..Len(queue) : queue[i] = line
QueueComputed == Issued("rev-list --reverse --no-merges")

\* the commits applied so far are entries of the queue below the cursor, in
\* the order of the queue, and the queue was computed before any replay
AppliedInQueueOrder ==
    /\ \A k \in 1..Len(applied) :
           \E i \in 1..(cursor - 1) : i <= Len(queue) /\ queue[i] = applied[k]
    /\ \A k, l \in 1..Len(applied) :
           k < l => IndexOf(applied[k]) < IndexOf(applied[l])
    /\ \A i \in 1..Len(cmds) :
           /\ cmds[i].c = "rev-list --reverse --no-merges" => i = 1
           /\ cmds[i].c \in {"cherry-pick", "cherry-pick --allow-empty"} => i > 1

\* one step of a session
SessionStep ==
    /\ QueueComputed => queue' = queue
    /\ cursor' >= cursor
    /\ (/\ cmds' # cmds
        /\ cmds'[Len(cmds')].c \in {"cherry-pick --continue", "cherry-pick --skip"})
       => cursor' = IF outcome' = Ok THEN cursor + 1 ELSE cursor
    /\ Issued("cherry-pick --abort") => applied' = applied /\ cmds' = cmds

\* C10: in one session the queue is computed once before the first replay
\* and never changes, commits are applied in queue order and each at most
\* once, the cursor never decreases, continue and skip move it forward by
\* one, and nothing is replayed after an abort
C10_QueueOnceCursorForward == []AppliedInQueueOrder /\ [][SessionStep]_vars

C10_Witness ==
    /\ phase = "Aborted"
    /\ Len(queue) >= 2
    /\ Len(applied) >= 1
    /\ cursor = 3
    /\ Issued("cherry-pick --continue")
    /\ Issued("cherry-pick --skip")
    /\ Issued("cherry-pick --abort")

\* ---------------------------------------------------- the whole session
\* the tags the running call has created
NewTags == tags \ pre.tags

\* C11: after setupCherryPick(target), a replay that applied the whole queue
\* onto the temp branch and a successful finishCherryPick(currentBranch,
\* tempBranch, {createBackup}): currentBranch is checked out, its tip is the
\* temp branch's tip, which is the replay of the queue's last commit (the
\* target's tip when the queue is empty); with createBackup exactly one new
\* tag exists and it references currentBranch's former tip, without it no
\* tag was created.
C11_FinishedOnReplayTip ==
    (/\ phase = "Replaying" /\ InFinish /\ pc = "done" /\ outcome = Ok
     /\ applied = queue)
        => /\ head = call.a
           /\ Tip(call.a) = Tip(call.b)
           /\ Tip(call.a) = IF queue = <<>> THEN pre.tips[call.b]
                            ELSE MaxNodes + Len(queue)
           /\ IF call.flag
              THEN /\ Cardinality(NewTags) = 1
                   /\ \A t \in NewTags : t.target = pre.tips[call.a]
              ELSE NewTags = {}

\* C11 witness: two commits were replayed and the branch was reset, with a
\* backup tag
C11_Witness ==
    /\ phase = "Replaying" /\ InFinish /\ pc = "done" /\ outcome = Ok
    /\ applied = queue /\ Len(queue) >= 2
    /\ call.flag
    /\ Tip(call.a) # pre.tips[call.a]

\* C12: once a session is discarded (after a success, a user abort or a
\* failure), the temporary branch no longer exists.
C12_DiscardedWithoutTemp ==
    phase \in {"Finalized", "Discarded"} => Tip(TempBranchName) = NoCommit

\* C13: whenever setupCherryPick creates the temporary branch, no branch of
\* the name it chose exists yet, whatever setupCherryPick, finishCherryPick
\* and cleanupCherryPick calls the process made before, failed cleanups
\* included.
C13_TempNameIsFresh ==
    (call.op = "setupCherryPick" /\ Issued("checkout -b"))
        => pre.tips[TempBranchName] = NoCommit

\* the queries of getBranchInfos: none of them changes the repository
ReadOnlyQueries == InventoryQueries \cup {CountCommand}

\* C14: within one operation, two subprocess commands are in flight at the
\* same time only when both are read-only queries of the branch inventory;
\* a command that changes the repository (checkout, branch create / delete,
\* cherry-pick, rebase, push, tag, reset, add) is in flight alone, that is,
\* it was issued after the operation's previous command had completed.
C14_MutatingCommandsAwaited ==
    \A q \in inflight, r \in inflight :
        (q # r /\ q.id = r.id) => (q.c \in ReadOnlyQueries /\ r.c \in ReadOnlyQueries)

\* C14 witness: finishCherryPick has its reset in flight, the fourth command
\* it issued
C14_Witness ==
    /\ pc = "awaiting"
    /\ call.op = "finishCherryPick"
    /\ Len(cmds) = 4
    /\ \E q \in inflight : q.id = ncalls /\ q.c = "reset --hard"

\* getBranchInfos has returned an array
InventoryReturned == call.op = "getBranchInfos" /\ pc = "done" /\ outcome = Ok

\* the date a record is ordered by: a null date counts as the epoch
DateKey(record) ==
    IF record.lastCommitDate = <<>> THEN 0 ELSE record.lastCommitDate[1]

Inventory(l, includeRemote) ==
    LET fromRemote == FirstIncluded(defaultRemoteBranches, BranchAll(l.remote))
        fromLocal  == FirstIncluded(defaultLocalBranches, BranchAll(l.local))
        base == IF fromRemote # <<>> THEN fromRemote[1]
                ELSE IF fromLocal # <<>> THEN fromLocal[1] ELSE NoRef
        all  == listBranches(ForEachRef(RefsHeads, l.local), "local") \o
                (IF includeRemote
                 THEN listBranches(ForEachRef(RefsRemotes, l.remote), "remote")
                 ELSE <<>>)
        of(record) ==
            LET refs == IF record.type = "local" THEN l.local ELSE l.remote
            IN  refs[CHOOSE i \in 1..Len(refs) : refs[i].short = record.ref]
    IN  sort(Assemble(
            [localMerged  |-> getMergedSet(BranchMerged(l.local)),
             remoteMerged |-> IF includeRemote
                              THEN getMergedSet(BranchMerged(l.remote)) ELSE {},
             allBranches  |-> all,
             counts |-> [i \in 1..Len(all) |->
                            IF base = NoRef \/ all[i].ref = base \/ of(all[i]).broken
                            THEN Zero
                            ELSE parseCounts(RevListCount(of(all[i])))]]))

\* the commands of the running call that are in flight
Pending == {q \in inflight : q.id = ncalls}

\* C17: the array getBranchInfos returns is the one the repository and the
\* option determine, in whatever order the queries issued together (the
\* two merged sets, the base branch, the counts of every branch) complete;
\* and when the array is sorted and returned, every one of these queries
\* has completed.
C17_CompletionOrderIrrelevant ==
    InventoryReturned =>
        /\ infos = Inventory(listing, call.flag)
        /\ Pending = {}
        /\ answers.settled = {"localMerged", "remoteMerged", "baseBranch"}
        /\ answers.counted = Asked(answers.allBranches, answers.baseBranch)

\* C17 witness: the merged sets settled before the base branch did, and the
\* counts of a branch are in while those of a branch asked about earlier
\* are still awaited
C17_Witness ==
    /\ call.op = "getBranchInfos" /\ pc = "all2" /\ call.flag
    /\ Issued("branch")
    /\ \E i \in Asked(answers.allBranches, answers.baseBranch) :
          /\ i \notin answers.counted
          /\ \E j \in answers.counted : j > i

\* the record of the branch in the inventory of the same repository with
\* every branch countable
Healthy(l) ==
    [l EXCEPT !.local = [i \in 1..Len(l.local) |-> [l.local[i] EXCEPT !.broken = FALSE]],
              !.remote = [i \in 1..Len(l.remote) |-> [l.remote[i] EXCEPT !.broken = FALSE]]]

\* the queries getBranchInfos(includeRemote) issues outside a try block:
\* the merged sets, the listings and those of getBaseBranch, which asks for
\* the local branches when no default remote branch exists
Uncaught(includeRemote) ==
    {"branch --merged", "for-each-ref refs/heads/", "branch -r"} \cup
    (IF includeRemote THEN {"branch -r --merged", "for-each-ref refs/remotes/"} ELSE {})
    \cup (IF FirstIncluded(defaultRemoteBranches, BranchAll(listing.remote)) = <<>>
          THEN {"branch"} ELSE {})

\* C18: getAheadBehind(b, b) issues no command and returns zeros: no
\* rev-list is issued for the branch that is the base, and the record whose
\* ref is the base branch has ahead = 0 and behind = 0.
C18_BaseAgainstItself ==
    (call.op = "getBranchInfos" /\ "baseBranch" \in answers.settled) =>
        /\ \A k \in 1..Len(cmds) :
              cmds[k].c = CountCommand => cmds[k].ref # answers.baseBranch
        /\ InventoryReturned =>
              \A i \in 1..Len(infos) :
                  infos[i].ref = answers.baseBranch
                      => infos[i].ahead = 0 /\ infos[i].behind = 0

\* C18 witness: the inventory has the record of the base branch, and another
\* record with commits counted
C18_Witness ==
    /\ InventoryReturned
    /\ \E i \in 1..Len(infos) : infos[i].ref = answers.baseBranch
    /\ \E i \in 1..Len(infos) : infos[i].ahead # 0 /\ infos[i].behind # 0

\* C19: when the rev-list of some branches fails, getBranchInfos still
\* returns: these branches get ahead = 0 and behind = 0 and every other
\* record is what it is when no rev-list fails; when a query for a merged
\* set or for a list of branches fails, getBranchInfos throws and returns
\* no array.
C19_OnlyCountsMayFail ==
    (call.op = "getBranchInfos" /\ pc = "done") =>
        IF listing.broken \cap Uncaught(call.flag) # {}
        THEN outcome.kind = "GitError" /\ infos = <<>>
        ELSE /\ outcome = Ok
             /\ Len(infos) = Len(Inventory(Healthy(listing), call.flag))
             /\ \A i \in 1..Len(infos) :
                   IF BranchOf(infos[i]).broken
                   THEN infos[i].ahead = 0 /\ infos[i].behind = 0
                   ELSE infos[i] = Inventory(Healthy(listing), call.flag)[i]

\* C19 witness: git could not count one branch, whose record has zeros,
\* next to a record with commits counted
C19_Witness ==
    /\ InventoryReturned
    /\ \E i \in 1..Len(infos) :
          /\ BranchOf(infos[i]).broken
          /\ infos[i].ref # answers.baseBranch
          /\ infos[i].ahead = 0
    /\ \E i \in 1..Len(infos) : ~BranchOf(infos[i]).broken /\ infos[i].ahead # 0

\* the base branch of the policy: the first of origin/main, origin/master,
\* origin/develop that exists, else the first of main, master, develop
Exists(ref) == ref \in BranchAll(listing.local) \cup BranchAll(listing.remote)
PolicyBase ==
    IF Exists(OriginRef(main)) THEN OriginRef(main)
    ELSE IF Exists(OriginRef(master)) THEN OriginRef(master)
    ELSE IF Exists(OriginRef(develop)) THEN OriginRef(develop)
    ELSE IF Exists(main) THEN main
    ELSE IF Exists(master) THEN master
    ELSE IF Exists(develop) THEN develop
    ELSE NoRef

\* C20: the base branch of the inventory is the first existing one of
\* origin/main, origin/master, origin/develop, else the first existing one
\* of main, master, develop, else none; with no base branch no rev-list is
\* issued and every record has ahead = 0 and behind = 0.
C20_BaseBranchPolicy ==
    (call.op = "getBranchInfos" /\ "baseBranch" \in answers.settled) =>
        /\ answers.baseBranch = PolicyBase
        /\ PolicyBase = NoRef =>
              /\ ~Issued(CountCommand)
              /\ InventoryReturned =>
                    \A i \in 1..Len(infos) : infos[i].ahead = 0 /\ infos[i].behind = 0

\* C20 witness: origin/develop is the base branch of a repository that has
\* a local main
C20_Witness ==
    /\ InventoryReturned
    /\ answers.baseBranch = OriginRef(develop)
    /\ Exists(main)
    /\ \E i \in 1..Len(infos) : infos[i].ref = main /\ infos[i].ahead # 0

\* the branches of a type git lists, the symbolic origin/HEAD left out
ListedBranches(type) ==
    LET refs == IF type = "local" THEN listing.local ELSE listing.remote
    IN  {refs[i].short : i \in {k \in 1..Len(refs) : ~refs[k].symbolic}}

\* the names git branch [-r] --merged prints, as getMergedSet keeps them
MergedSet(type) ==
    getMergedSet(BranchMerged(IF type = "local" THEN listing.local ELSE listing.remote))

Records == IF frame.op = "listBranches" /\ value.kind = "returned" THEN value.v ELSE <<>>

\* C22: every record of the reference lister has the field remote exactly
\* when its type is remote; no record has an empty ref, an empty name or
\* the name HEAD; a remote record's ref is remote + "/" + name, remote being
\* the first path segment of the short ref.
C22_RecordShape ==
    \A i \in 1..Len(Records) :
        LET record == Records[i]
        IN  /\ ("remote" \in DOMAIN record) <=> (record.type = "remote")
            /\ record.ref # <<>>
            /\ record.name # <<>>
            /\ record.name # HEAD
            /\ record.type = "remote" =>
                  /\ record.ref = record.remote \o <<"/">> \o record.name
                  /\ record.remote = SplitSlash(record.ref)[1]

\* C22 as amended: every record of the reference lister has the field
\* remote exactly when its type is remote; no record has an empty ref or an
\* empty name; no record's ref ends in /HEAD and no remote record has the
\* name HEAD, while a local branch named exactly HEAD keeps its record; a
\* remote record's ref is remote + "/" + name, remote being the first path
\* segment of the short ref.
C22_RecordShapeAmended ==
    \A i \in 1..Len(Records) :
        LET record == Records[i]
        IN  /\ ("remote" \in DOMAIN record) <=> (record.type = "remote")
            /\ record.ref # <<>>
            /\ record.name # <<>>
            /\ ~EndsWith(record.ref, <<"/">> \o HEAD)
            /\ record.name = HEAD => (record.type = "local" /\ record.ref = HEAD)
            /\ record.type = "remote" =>
                  /\ record.remote # <<>>
                  /\ record.ref = record.remote \o <<"/">> \o record.name
                  /\ record.remote = SplitSlash(record.ref)[1]

\* C22 witness: the lister returned a remote record whose name has two
\* segments
C22_Witness ==
    /\ Len(Records) = 1
    /\ Records[1].type = "remote"
    /\ Records[1].remote = <<"o">>
    /\ Records[1].name = Feature

\* isValidBranchName has accepted the name, or has rejected it
Accepted == frame.op = "isValidBranchName" /\ value = ReturnedValue(TRUE)
Rejected == frame.op = "isValidBranchName" /\ value = ReturnedValue(FALSE)

\* a segment of the name starts at position i, or ends there
SegmentStart(name, i) == i = 1 \/ name[i - 1] = "/"
SegmentEnd(name, i) == i = Len(name) \/ name[i + 1] = "/"

\* what no valid name has
Malformed(name) ==
    \/ name = <<>>
    \/ \E i \in 1..Len(name) : name[i] = NUL
    \/ name[1] = "/"
    \/ name[Len(name)] = "/"
    \/ \E i \in 1..(Len(name) - 1) : name[i] = "/" /\ name[i + 1] = "/"
    \/ \E i \in 1..(Len(name) - 1) : name[i] = "." /\ name[i + 1] = "."
    \/ name[Len(name)] = "."
    \/ \E i \in 1..Len(name) : SegmentStart(name, i) /\ name[i] = "."
    \/ \E i \in 5..Len(name) :
          SegmentEnd(name, i) /\ SubSeq(name, i - 4, i) = DotLock

\* C23: isValidBranchName never accepts the empty string, nor a string that
\* contains a null byte, starts or ends with "/", contains "//" or "..",
\* ends with ".", has a path segment starting with "." or has a path
\* segment ending in ".lock".
C23_MalformedNeverAccepted == Accepted => ~Malformed(frame.name)

\* C23 witness: a name whose last segment ends in .lock, made of safe
\* characters and well-formed otherwise, was rejected
C23_Witness ==
    /\ Rejected
    /\ frame.name = <<"m", "/", "m">> \o DotLock

\* C24: isValidBranchName accepts every non-empty name made only of
\* letters, digits, "-", "_", "." and "/" that breaks no structural rule,
\* whatever its length and the number of its segments, and rejects every
\* name that has another character ("@", "#", " ", ":").
C24_SafeNamesAccepted ==
    LET safe == \A i \in 1..Len(frame.name) :
                    frame.name[i] \in Letters \cup Digits \cup {"-", "_", ".", "/"}
    IN  (Accepted \/ Rejected) => (Accepted <=> (safe /\ ~Malformed(frame.name)))

\* C24 witness: a name of two segments with a dot inside a segment was
\* accepted
C24_Witness ==
    /\ Accepted
    /\ frame.name = <<"m", "/", "m">> \o DotLock \o <<"-", "1">>

\* the call with a progressCallback has ended, after the same call without
SecondEnded == ~Free /\ frame.first.done /\ call.cb /\ pc = "done"

\* C25: with the same arguments, on the same repository and with git
\* behaving the same way, performLinearRebase issues the same subprocess
\* commands in the same order and ends the same way (returns, or throws the
\* same error) with a progressCallback as without one.
C25_CallbackIrrelevant ==
    SecondEnded => (cmds = frame.first.cmds /\ outcome = frame.first.outcome)

\* C26: abortCherryPick and cleanupCherryPick return normally whatever
\* command inside them has failed (cherry-pick --abort, the status query,
\* the checkout of the original branch, branch -D): no error reaches their
\* caller.
C26_AdvisoryFailuresSwallowed ==
    /\ (phase = "Aborted" /\ pc = "idle" /\ cmds # <<>>
            /\ LastCmd.c = "cherry-pick --abort") => outcome = Ok
    /\ (call.op = "cleanupCherryPick" /\ pc = "done") => outcome = Ok

\* C26 witness: cleanupCherryPick has returned after its checkout of the
\* original branch failed, in a session whose cherry-pick was aborted; the
\* temporary branch is still checked out
C26_Witness ==
    /\ phase = "Aborted"
    /\ call.op = "cleanupCherryPick" /\ pc = "done"
    /\ LastCmd.c = "checkout"
    /\ head = TempBranchName
    /\ outcome = Ok

\* the layers loadConfig has read: the global config file, and the local
\* config file findUp has found
GlobalLayer == OrEmpty(readConfigFile(GlobalConfigPath(files.home), frame.validate))
LocalLayer ==
    IF frame.at = "readLocal" THEN OrEmpty(readConfigFile(frame.path, frame.validate))
    ELSE NoKeys
LoadReturned == frame.op = "loadConfig" /\ value.kind = "returned"
NoConfigFiles ==
    /\ files.global = Absent
    /\ \A d \in Directories : files.local[d] = Absent

\* C27: the result of loadConfig has the keys of the three layers; the value
\* of a key is the local config's if the local config has the key, else the
\* global config's if that has it, else the default, and sources[key] names
\* that layer; with no config file at all the result is defaultConfig and
\* every source is "default".
C27_LocalOverGlobalOverDefault ==
    LoadReturned =>
        LET config  == value.v.config
            sources == value.v.sources
        IN  /\ \A k \in Keys :
                  /\ hasOwn(config, k) <=>
                        (hasOwn(LocalLayer, k) \/ hasOwn(GlobalLayer, k)
                            \/ hasOwn(defaultConfig, k))
                  /\ hasOwn(LocalLayer, k) =>
                        (config[k] = LocalLayer[k] /\ sources[k] = "local")
                  /\ (~hasOwn(LocalLayer, k) /\ hasOwn(GlobalLayer, k)) =>
                        (config[k] = GlobalLayer[k] /\ sources[k] = "global")
                  /\ (~hasOwn(LocalLayer, k) /\ ~hasOwn(GlobalLayer, k)
                            /\ hasOwn(defaultConfig, k)) =>
                        (config[k] = defaultConfig[k] /\ sources[k] = "default")
            /\ NoConfigFiles =>
                  /\ config = defaultConfig
                  /\ \A k \in Keys : hasOwn(config, k) => sources[k] = "default"

\* C27 witness: loadConfig has returned a config with one key from each
\* layer, the local file overriding a key the default has too
C27_Witness ==
    /\ LoadReturned
    /\ hasOwn(LocalLayer, "a") /\ hasOwn(GlobalLayer, "a")
    /\ value.v.sources = [k \in Keys |->
            IF k = "a" THEN "local" ELSE IF k = "b" THEN "default" ELSE "global"]
    /\ value.v.config["a"] = "3"

\* the directories findUp is to look in: from the start directory upward,
\* as far as the root, the stop directory and what is above it left out
RECURSIVE ChainFrom(_, _)
ChainFrom(dir, stopDir) ==
    IF dir = stopDir THEN <<>>
    ELSE IF dir = Root THEN <<Root>>
    ELSE <<dir>> \o ChainFrom(dirname(dir), stopDir)
Chain == ChainFrom(frame.start, dirname(files.home))
Holders == {i \in 1..Len(Chain) : At(join(Chain[i], LocalConfigFile)).kind # "absent"}
Nearest == Chain[CHOOSE i \in Holders : \A j \in Holders : i <= j]

\* C28: findUp ends for every start directory: it looks into no more
\* directories than there are from the start directory up to the root, and
\* it returns the path of the file in the nearest directory of the chain
\* that has it, null when none has, also when the start directory is not
\* under the parent of the home directory.
C28_FindUpTerminates ==
    frame.op = "findUp" =>
        /\ frame.probes <= Len(frame.start) + 1
        /\ value # NoValue =>
              value = IF Holders = {} THEN Null
                      ELSE ReturnedValue(join(Nearest, LocalConfigFile))

\* what the validator makes of the parsed content of the file read
ReadReturned == frame.op = "readConfigFile" /\ value # NoValue
ValidatorThrows ==
    \/ frame.validate = "schema"
    \/ frame.validate = "strict" /\ At(frame.path).kind = "null"
Validated == IF At(frame.path).kind = "null" THEN Null
             ELSE ReturnedValue(At(frame.path).object)

\* C29: readConfigFile returns null exactly when the file does not exist;
\* for a file that exists it returns the validated parsed content, and it
\* throws when the file cannot be read, is not JSON or the validator throws.
C29_NullOnlyWhenMissing ==
    ReadReturned =>
        LET content == At(frame.path)
        IN  /\ (value = Null) <=> (content.kind = "absent")
            /\ content.kind \in {"denied", "invalid"} => value.kind = "threw"
            /\ (content.kind \in {"null", "object"} /\ ValidatorThrows) =>
                  value.kind = "threw"
            /\ (content.kind \in {"null", "object"} /\ ~ValidatorThrows) =>
                  value = Validated


\* C30: performLinearRebase issues nothing for an invalid target; fetch
\* --all is its first command; the checkout of the current branch comes
\* after the fetch and the existence probes, when branchExists has answered
\* yes (the progress message that follows it was given); the
\* rebase comes right after the resolution of the target that follows the
\* checkout, with the current branch checked out, onto the resolved target;
\* it carries -X ours exactly when continueOnConflict is set.
C30_StepsInOrder ==
    InLinear =>
        /\ cmds # <<>> => (isValidBranchName(call.b) /\ cmds[1].c = "fetch --all")
        /\ \A i \in 1..Len(cmds) :
              /\ cmds[i].c = "checkout" =>
                    /\ i \in {3, 4}
                    /\ cmds[i].ref = call.a
                    /\ \A j \in 2..(i - 1) : cmds[j].c = "show-ref"
                    /\ call.cb => \E k \in 1..Len(progress) :
                                      progress[k] = "Starting linear rebase..."
              /\ cmds[i].c \in {"rebase", "rebase -X ours"} =>
                    /\ i \in {5, 6}
                    /\ cmds[i - 2].c = "checkout"
                    /\ cmds[i - 1] = Cmd("show-ref", OriginRef(call.b))
                    /\ cmds[i].ref = resolved
                    /\ (cmds[i].c = "rebase -X ours") <=> call.flag
                    /\ \A j \in 1..Len(cmds) :
                          cmds[j].c \in {"rebase", "rebase -X ours"} => j = i

\* C30 witness: a linear rebase with continueOnConflict has returned after
\* its six commands, the target found by the second existence probe
C30_Witness ==
    /\ InLinear /\ pc = "done" /\ outcome = Ok
    /\ call.flag
    /\ Len(cmds) = 6
    /\ cmds[3] = Cmd("show-ref", call.b)
    /\ cmds[6] = Cmd("rebase -X ours", call.b)

InCleanup == call.op = "cleanupCherryPick" /\ pc = "done"

\* C31: cleanupCherryPick issues branch -D of the temporary branch only
\* when that branch is not checked out: on the temporary branch it first
\* checks out the original branch, and issues no delete when that checkout
\* fails; on another branch it issues no checkout.
C31_DeleteOnlyOffTempBranch ==
    InCleanup =>
        /\ Issued("branch -D") => head # call.a
        /\ (pre.head = call.a /\ Len(cmds) >= 2) => cmds[2] = Cmd("checkout", call.b)
        /\ (pre.head = call.a /\ Issued("branch -D")) =>
              (cmds[2] = Cmd("checkout", call.b) /\ head = call.b)
        /\ pre.head # call.a => ~Issued("checkout")

\* C31 amended: as C31, but the deleted branch is known not to be checked
\* out only when the original branch is another branch than the temporary
\* one: with the same name for both, the checkout stays on the temporary
\* branch and the delete is issued all the same.
C31_DeleteAfterCheckout ==
    InCleanup =>
        /\ (Issued("branch -D") /\ call.a # call.b) => head # call.a
        /\ (pre.head = call.a /\ Len(cmds) >= 2) => cmds[2] = Cmd("checkout", call.b)
        /\ (pre.head = call.a /\ Issued("branch -D")) =>
              (cmds[2] = Cmd("checkout", call.b) /\ head = call.b)
        /\ pre.head # call.a => ~Issued("checkout")
        /\ Issued("branch -D") => LastCmd = Cmd("branch -D", call.a)

\* C31 witness: on the temporary branch, the checkout of the original
\* branch has failed and no delete was issued; the temporary branch is left
C31_Witness ==
    /\ InCleanup
    /\ pre.head = call.a /\ call.a # call.b
    /\ cmds = <<Cmd("status", NoRef), Cmd("checkout", call.b)>>
    /\ head = call.a /\ Tip(call.a) # NoCommit

\* the qualified ref the claim gives a target, and whether branchExists
\* holds of it
Qualified(target) ==
    IF RemoteTip(target) # NoCommit THEN OriginRef(target) ELSE target
BranchIsThere(target) == RemoteTip(target) # NoCommit \/ Tip(target) # NoCommit
RebaseIssued == {i \in 1..Len(cmds) : cmds[i].c \in {"rebase", "rebase -X ours"}}

\* C32: the start point of checkout -b in setupCherryPick and the target of
\* the rebase in performLinearRebase is origin/<target> exactly when
\* refs/remotes/origin/<target> exists, the bare <target> otherwise; for a
\* target that exists as a remote-tracking or as a local branch, it names an
\* existing ref.
C32_QualifiedRef ==
    /\ (call.op = "setupCherryPick" /\ pc = "done" /\ Len(cmds) = 2) =>
          /\ cmds[2].ref = Qualified(call.a)
          /\ BranchIsThere(call.a) => Resolve(cmds[2].ref) # NoCommit
    /\ InLinear =>
          \A i \in RebaseIssued :
              /\ cmds[i].ref = Qualified(call.b)
              /\ BranchIsThere(call.b) => Resolve(cmds[i].ref) # NoCommit

AutoResolve == {"checkout --ours .", "add .", "rebase --continue"}

\* C33: in performLinearRebase with continueOnConflict, checkout --ours .,
\* add . and rebase --continue are each issued at most once, and only after
\* the rebase onto the target was issued (and failed): a fetch, an existence
\* check or a checkout of the current branch that fails stages nothing and
\* continues nothing.
C33_AutoResolveOnlyAfterRebase ==
    (InLinear /\ call.flag) =>
        /\ \A c \in AutoResolve : CountIssued(c) <= 1
        /\ \A i \in 1..Len(cmds) :
              cmds[i].c \in AutoResolve => \E j \in RebaseIssued : j < i

FinishDone == InFinish /\ pc = "done"
CheckoutFailed == outcome = GitError("checkout")

\* C34: finishCherryPick without createBackup creates no tag and issues
\* the checkout of currentBranch and then reset --hard <tempBranchName>,
\* nothing else; with or without createBackup, when the checkout fails no
\* tag is created, no reset is issued and every branch stays where it was.
C34_NoBackupNoTag ==
    /\ (InFinish /\ ~call.flag) =>
          /\ tags = pre.tags
          /\ \A i \in 1..Len(cmds) :
                cmds[i] = IF i = 1 THEN Cmd("checkout", call.a)
                          ELSE Cmd("reset --hard", call.b)
          /\ Len(cmds) <= 2
          /\ (pc = "done" /\ ~CheckoutFailed) => Len(cmds) = 2
    /\ (FinishDone /\ CheckoutFailed) =>
          /\ cmds = <<Cmd("checkout", call.a)>>
          /\ tags = pre.tags
          /\ tips = pre.tips
          /\ head = pre.head

\* C34 witness: finishCherryPick without createBackup has moved the current
\* branch to the tip of the temporary branch with its two commands
C34_Witness ==
    /\ FinishDone /\ ~call.flag /\ outcome = Ok
    /\ cmds = <<Cmd("checkout", call.a), Cmd("reset --hard", call.b)>>
    /\ Tip(call.a) = Tip(call.b) /\ Tip(call.a) # PreTip(call.a)
    /\ tags = {}

\* the non-merge commits reachable from range.to and not from range.from
ToReplay ==
    {c \in Reach(graph, range.to) \ Reach(graph, range.from) : ~IsMerge(graph, c)}
PickIssued ==
    {i \in 1..Len(cmds) : cmds[i].c \in {"cherry-pick", "cherry-pick --allow-empty"}}

\* C35: getCommitsToCherryPick returns no empty identifier; when no
\* non-merge commit is reachable from `to` and not from `from` (from = to,
\* for one) it returns the empty sequence, and the replay over it issues no
\* cherry-pick.
C35_EmptyRangeEmptyList ==
    range # NoRange =>
        /\ \A i \in 1..Len(queue) : queue[i] # <<>>
        /\ ToReplay = {} => (queue = <<>> /\ PickIssued = {})

\* C35 witness: a range without commit to replay has given the empty list
\* and the session has finished without a cherry-pick
C35_Witness ==
    /\ range # NoRange /\ ToReplay = {}
    /\ queue = <<>>
    /\ phase = "Finished"
    /\ PickIssued = {}

\* C36: startAutostash returns a stash reference only for the entry its own
\* push has made: null when the push made none, the reference of its own
\* entry otherwise, never that of an entry left by an earlier call or of one
\* whose subject only contains the label; popStash of the reference
\* restores what this call has stashed.
C36_OwnStashOnly ==
    frame.op = "startAutostash" =>
        /\ (frame.at \in {"returned", "popped"} /\ ~frame.created) => value = Null
        /\ (frame.at = "returned" /\ value.kind = "returned") =>
              \E i \in 1..Len(files.stash) :
                  StashRef(i) = value.v /\ files.stash[i].by = "call"
        /\ frame.at = "popped" => files.restored = "call"

\* the app exits in this step
EditorExits == value = NoValue /\ value' = Exited

\* the steps of the ConfigEditor the claim allows
EditorStep ==
    frame.op = "ConfigEditor" =>
        /\ EditorExits =>
              \/ /\ frame.status = "selecting"
                 /\ frame'.event = "q"
                 /\ isDeepEqual(frame.config, frame.initialConfig)
              \/ /\ frame.status = "confirm_quit"
                 /\ frame'.event = "yes"
              \/ /\ frame.status = "saving"
                 /\ frame'.event = "saved"
                 /\ files'.written = frame.config
        /\ (frame.status = "confirm_quit" /\ frame'.event = "no") =>
              /\ frame'.status = "selecting"
              /\ frame'.config = frame.config
              /\ value' = NoValue
        /\ files'.calls # files.calls => frame.status = "selecting"
        /\ files'.written # files.written => frame.status = "saving"

\* C37: the ConfigEditor exits only from selecting with a config deep-equal
\* to the one loaded, from confirm_quit on the answer yes, or when
\* writeConfig has completed; the answer no leads back to selecting with
\* the edited config as it was; writeConfig is called from selecting only.
C37_NoSilentExit == [][EditorStep]_vars

\* C37 witness: the editor has exited on the answer yes with a config that
\* differs from the loaded one and that was never written
C37_Witness ==
    /\ frame.op = "ConfigEditor" /\ value = Exited
    /\ frame.status = "confirm_quit" /\ frame.event = "yes"
    /\ ~isDeepEqual(frame.config, frame.initialConfig)
    /\ files.calls = 0

\* the step handles this key while a number item is edited
NumberKey(event) ==
    /\ frame.op = "ConfigEditor" /\ value = NoValue
    /\ frame.status = "editing" /\ frame.editingItem = "n"
    /\ frame'.event = event
    /\ frame' # frame
\* the text of the input buffer is empty, or is that of an integer >= 0
EmptyInput == trim(frame.inputBuffer) = <<>>
ParsesToNatural ==
    LET parsed == parseInt(frame.inputBuffer)
    IN  IF parsed = NaN THEN FALSE ELSE parsed.v >= 0
CancelledEdit ==
    /\ frame'.config = frame.config
    /\ frame'.status = "selecting"
    /\ frame'.inputBuffer = <<>>
    /\ frame'.inputError = NoInputError

EditingStep ==
    /\ (frame.op = "ConfigEditor" /\ frame.status = "editing"
            /\ frame'.event = "escape") => CancelledEdit
    /\ (NumberKey("return") /\ ~EmptyInput /\ ~ParsesToNatural) =>
          /\ frame'.config = frame.config
          /\ frame'.inputError = NumberError
          /\ frame'.status = "editing"
    /\ NumberKey("return") =>
          /\ frame'.config["b"] = frame.config["b"]
          /\ \/ frame'.config["n"] = frame.config["n"]
             \/ frame'.config["n"] = Undefined /\ EmptyInput
             \/ /\ frame'.config["n"].type = "number"
                /\ frame'.config["n"].v >= 0

\* C38: Escape while editing leaves the config as it is and leads to
\* selecting with the input buffer and the input error cleared; Return on a
\* number item whose text does not parse to an integer >= 0 leaves the
\* config as it is, sets the input error and stays in editing; a value
\* committed for a number item is an integer >= 0, or undefined for empty
\* input.
C38_EditCancelAndCommit == [][EditingStep]_vars

\* C38 witness: Return on the text -1 of a number item was refused
C38_Witness ==
    /\ frame.op = "ConfigEditor" /\ frame.status = "editing"
    /\ frame.editingItem = "n" /\ frame.event = "return"
    /\ frame.inputBuffer = <<"-", "1">>
    /\ frame.inputError = NumberError
    /\ frame.config["n"] = Num(1)
====
